---- MODULE Spec2Model ----
(***************************************************************************)
(* A model of the Descriptor Control Block (DCB) core of MaxScale,         *)
(* server/core/dcb.c: the DCB state machine, the registry (allDCBs), the   *)
(* zombie list and its reaper, and the write queue.                        *)
(*                                                                         *)
(* Three specifications share the module:                                  *)
(*   SpecState  dcb_set_state_nomutex applied to every (state, new_state)  *)
(*   Spec       worker threads running poll -> dispatch -> process_zombies *)
(*              with dcb_close called from event handlers                  *)
(*   SpecWrite  concurrent dcb_write / dcb_drain_writeq on one DCB         *)
(***************************************************************************)
EXTENDS Integers, Sequences, FiniteSets, TLC

VARIABLES
    \* ---- dcb_set_state_nomutex, applied on its own (SpecState)
    ts_state,       \* dcb->state of the DCB the function is applied to
    ts_new,         \* the new_state argument of the last call
    ts_old,         \* *old_state as written by the last call
    ts_ret,         \* the value the last call returned
    ts_calls,       \* number of calls made so far
    \* ---- the DCB life cycle (Spec): the DCBs
    mem,            \* d -> "none" (not yet malloc'ed), "live", "freed" (free(dcb) done)
    dcb_state,      \* d -> dcb->state
    dcb_role,       \* d -> dcb->dcb_role
    fd_open,        \* d -> dcb->fd is an open descriptor
    bitmask,        \* d -> dcb->memdata.bitmask, a set of polling-thread ids
    initlock,       \* d -> the thread holding dcb->dcb_initlock, or NoThread
    \* ---- the globals of dcb.c and of the poll layer
    allDCBs,        \* the registry, linked through dcb->next
    zombies,        \* the zombie list, linked through dcb->memdata.next
    zombiespin,     \* the thread holding zombiespin, or NoThread
    pollset,        \* the DCBs whose descriptor is in the poll (epoll) set
    pollmask,       \* poll_bitmask(): the polling threads that are running
    \* ---- the polling threads
    pc,             \* t -> where thread t is
    cur,            \* t -> the DCB (argument `dcb`) thread t is working on
    events,         \* t -> the DCBs with an event returned by the last poll, not yet dispatched
    victims,        \* t -> dcb_list of dcb_process_zombies, from the current victim on
    succp,          \* t -> local succp of dcb_close
    prev_state,     \* t -> local prev_state of dcb_close, until the call returns
    nclose,         \* t -> dcb_close calls made by the current event handler
    \* ---- history (not program state): what has happened to each DCB so far
    uaf,            \* the DCBs some thread read or wrote after free(dcb)
    nRemove,        \* d -> calls of poll_remove_dcb(d)
    nSnap,          \* d -> times bitmask_copy(&d->memdata.bitmask, poll_bitmask()) ran
    nInsert,        \* d -> times d was linked into the zombie list
    nFree,          \* d -> times free(d) ran
    snapW,          \* d -> poll_bitmask() when d's bitmask was first set
    clearedBy,      \* d -> the threads whose dcb_process_zombies cleared their bit of d
    closeRet,       \* the DCBs for which some dcb_close call has returned
    passed,         \* d -> the threads that called dcb_process_zombies after a dcb_close(d) returned
    \* ---- the write queue of one DCB (SpecWrite)
    writeq,         \* dcb->writeq: a chain (sequence) of buffers, each a sequence of bytes
    writeqlock,     \* the thread holding dcb->writeqlock, or NoWThread
    wire,           \* the bytes the descriptor has accepted, in order
    wpc,            \* t -> where thread t is in dcb_write / dcb_drain_writeq
    queue,          \* t -> local `queue` of dcb_write: the chain not yet sent
    saved_errno,    \* t -> local saved_errno
    wn,             \* t -> local n of dcb_drain_writeq
    wret,           \* t -> the value the thread's last call returned
    \* ---- history
    order,          \* the bytes handed to dcb_write, in the order the calls took writeqlock
    nbytes,         \* number of bytes handed to dcb_write so far (bytes are numbered)
    dshort,         \* t -> a write() of t's dcb_drain_writeq call was short (w < len)
    wire0,          \* t -> Len(wire) when t's running dcb_drain_writeq call took writeqlock
    \* ---- dcb_read on one DCB (SpecRead)
    rd_kernel,      \* the bytes the socket holds for reading, in arrival order
    rd_closed,      \* the peer has closed the connection
    rd_sent,        \* number of bytes the peer has sent so far (bytes are numbered)
    rd_pc,          \* where the reader is in dcb_read
    rd_head,        \* *head: the chain the caller passed, a sequence of buffers
    rd_b,           \* local b: the count FIONREAD reported
    rd_n,           \* local n
    rd_ret,         \* the value the last call returned
    rd_calls,       \* number of dcb_read calls made so far
    \* ---- history
    rd_app,         \* per buffer the running or last call appended: <<bufsize, n>>
    rd_why,         \* what ended the last call
    rd_b0,          \* the count the first ioctl of the running or last call reported
    rd_quiet,       \* nothing arrived at or left the socket behind the call's back
    \* ---- dcb_connect and dcb_final_free (SpecConnect): one session, one server
    cn_pc,          \* t -> where thread t is in dcb_connect / dcb_final_free
    cn_dcb,         \* t -> local dcb
    cn_why,         \* t -> why the thread runs dcb_final_free ("NONE", "MODULE", "LINK", "PROTO", "REAP")
    cn_ret,         \* t -> what the thread's last dcb_connect returned ("none", "NULL", "DCB")
    cn_rsession,    \* t -> local rsession of dcb_final_free
    dcb_session,    \* d -> dcb->session is set (the DCB is linked to the session)
    ss_router,      \* session->router_session: "RS" or "NULL"
    ss_lock,        \* the thread holding session->ses_lock, or NoCThread
    ss_refs,        \* the DCBs linked to the session
    ss_mem,         \* "live", or "freed" once session_free has dropped the last link
    n_connections,  \* server->stats.n_connections
    n_current,      \* server->stats.n_current
    \* ---- history
    nCloseSession,  \* calls of router->closeSession for the session
    ss_had,         \* the session had a router session to begin with
    \* ---- dcb_alloc and the chain of all DCBs as pointers (SpecAlloc)
    dcbspin,        \* the thread holding dcbspin, or NoAThread
    rg_head,        \* allDCBs, the head of the chain
    rg_next,        \* d -> dcb->next
    dcb_memnext,    \* d -> dcb->memdata.next
    dcb_writeq,     \* d -> dcb->writeq: "NULL" or "JUNK"
    al_pc,          \* t -> where thread t is in dcb_alloc
    al_rval,        \* t -> local rval
    al_ptr,         \* t -> local ptr of the walk to the tail
    al_role,        \* t -> parameter role
    \* ---- history
    al_done,        \* the DCBs dcb_alloc has returned, less the freed ones
    al_req,         \* d -> the role dcb_alloc was asked for
    al_linked,      \* the DCBs in the order their dcb_alloc linked them, less the freed ones
    \* ---- the locks of dcb.c and what each function does with them (SpecLocks)
    lk_holder,      \* lock -> the thread holding it, or NoLThread
    lk_prog,        \* t -> the lock operations thread t has still to make in its call
    lk_call,        \* t -> the function thread t is in, "none" outside
    lk_ff,          \* t -> the DCB whose dcb_final_free thread t is in, or NoDcb
    lk_reg,         \* the chain of all DCBs, as dcb_final_free leaves it
    \* ---- printAllDCBs / dprintAllDCBs by one more thread (SpecEnum)
    en_pc,          \* where the thread is: "idle" or "walk"
    en_dcb,         \* local dcb of the walk
    \* ---- history
    en_seen,        \* the DCBs the running or last walk has printed, in order
    en_snap,        \* the chain of all DCBs when the walk took dcbspin
    en_freed,       \* the DCBs a walk printed after free(dcb)
    \* ---- the query statistics of the query log filter (SpecStats): one
    \* ---- LOG_STATS_DATA object shared by the threads that route queries
    st_wid,         \* stats->wid
    st_numClaims,   \* stats->numClaims
    st_numSelect,   \* stats->numSelect (the other three counters behave alike)
    st_now,         \* time(NULL) / stats_window: the current window
    st_calls,       \* number of updateStats calls made so far
    qs_pc,          \* t -> where thread t is in updateStats
    qs_currWID,     \* t -> parameter currWID
    qs_arg,         \* t -> the value read for the argument of the next atomic_add
    \* ---- history
    st_log,         \* the stats log entries written: [wid, n, at, by]
    st_lastRet      \* what the last claim() returned while no rollover was under way

varsT == <<ts_state, ts_new, ts_old, ts_ret, ts_calls>>

varsD == <<mem, dcb_state, dcb_role, fd_open, bitmask, initlock>>
varsG == <<allDCBs, zombies, zombiespin, pollset, pollmask>>
varsP == <<pc, cur, events, victims, succp, prev_state, nclose>>
varsH == <<uaf, nRemove, nSnap, nInsert, nFree, snapW, clearedBy, closeRet, passed>>
varsL == <<varsD, varsG, varsP, varsH>>

varsW == <<writeq, writeqlock, wire, wpc, queue, saved_errno, wn, wret, order, nbytes,
          dshort, wire0>>

varsR == <<rd_kernel, rd_closed, rd_sent, rd_pc, rd_head, rd_b, rd_n, rd_ret, rd_calls,
          rd_app, rd_why, rd_b0, rd_quiet>>

varsC == <<cn_pc, cn_dcb, cn_why, cn_ret, cn_rsession, dcb_session, ss_router, ss_lock,
          ss_refs, ss_mem, n_connections, n_current, nCloseSession, ss_had>>

varsA == <<dcbspin, rg_head, rg_next, dcb_memnext, dcb_writeq, al_pc, al_rval, al_ptr,
          al_role, al_done, al_req, al_linked>>

varsK == <<lk_holder, lk_prog, lk_call, lk_ff, lk_reg>>

varsV == <<en_pc, en_dcb, en_seen, en_snap, en_freed>>

varsQ == <<st_wid, st_numClaims, st_numSelect, st_now, st_calls, qs_pc, qs_currWID, qs_arg,
          st_log, st_lastRet>>

varsU == <<varsV, varsQ>>

varsE == <<varsA, varsK, varsU>>

\* the variables of the further specifications
varsN == <<varsR, varsC, varsE>>

\* the variables a step of the life cycle, of the write queue, of the state
\* machine leaves alone
varsX == <<varsT, varsW, varsN>>
varsY == <<varsT, varsL, varsN>>
varsZ == <<varsL, varsW, varsN>>

vars == <<varsT, varsL, varsW, varsN>>

(***************************************************************************)
(* dcb_state_t.  The switch in dcb_set_state_nomutex names these values.   *)
(***************************************************************************)
DcbStates ==
    {"UNDEFINED", "ALLOC", "POLLING", "LISTENING", "NOPOLLING", "ZOMBIE",
     "DISCONNECTED", "FREED"}

NoState == "NONE"

(***************************************************************************)
(* dcb_set_state_nomutex(dcb, new_state, &old_state).                      *)
(* `state` is dcb->state on entry.  `indet` is the value the automatic     *)
(* variable `bool succp;` holds on entry: the function declares it         *)
(* without an initialiser and the default: branches of the inner switches  *)
(* (and case DCB_STATE_FREED) never assign it, so on those paths the       *)
(* function returns that indeterminate value.                              *)
(* The result is [state |-> dcb->state on return, succp |-> the value      *)
(* returned, old |-> *old_state].                                          *)
(***************************************************************************)
\* dcb_set_state_nomutex with *old_state written after the assignment to dcb->state
mut_set_state_old_after(state, new_state, indet) ==
    IF state = "UNDEFINED"
         \/ (state = "ALLOC" /\ new_state \in {"POLLING", "LISTENING", "DISCONNECTED"})
         \/ (state = "POLLING" /\ new_state \in {"NOPOLLING", "LISTENING"})
         \/ (state = "LISTENING" /\ new_state = "POLLING")
         \/ (state = "NOPOLLING" /\ new_state = "ZOMBIE")
         \/ (state = "ZOMBIE" /\ new_state = "DISCONNECTED")
         \/ (state = "DISCONNECTED" /\ new_state = "FREED")
    THEN [state |-> new_state, succp |-> TRUE, old |-> new_state]
    ELSE IF state \in {"NOPOLLING", "ZOMBIE"} /\ new_state = "POLLING"
         THEN [state |-> state, succp |-> TRUE, old |-> state]
         ELSE [state |-> state, succp |-> indet, old |-> state]

\* dcb_set_state_nomutex with `case DCB_STATE_POLLING:` of the NOPOLLING and ZOMBIE
\* switches placed above `dcb->state = new_state;` instead of below it
mut_set_state_polling_reopens(state, new_state, indet) ==
    IF state \in {"NOPOLLING", "ZOMBIE"} /\ new_state = "POLLING"
    THEN [state |-> "POLLING", succp |-> TRUE, old |-> state]
    ELSE IF state = "UNDEFINED"
              \/ (state = "ALLOC" /\ new_state \in {"POLLING", "LISTENING", "DISCONNECTED"})
              \/ (state = "POLLING" /\ new_state \in {"NOPOLLING", "LISTENING"})
              \/ (state = "LISTENING" /\ new_state = "POLLING")
              \/ (state = "NOPOLLING" /\ new_state = "ZOMBIE")
              \/ (state = "ZOMBIE" /\ new_state = "DISCONNECTED")
              \/ (state = "DISCONNECTED" /\ new_state = "FREED")
         THEN [state |-> new_state, succp |-> TRUE, old |-> state]
         ELSE [state |-> state, succp |-> indet, old |-> state]

dcb_set_state_nomutex(state, new_state, indet) ==
    CASE state = "UNDEFINED" ->
            [state |-> new_state, succp |-> TRUE, old |-> state]
      [] state = "ALLOC" ->
            IF new_state \in {"POLLING", "LISTENING", "DISCONNECTED"}
            THEN [state |-> new_state, succp |-> TRUE, old |-> state]
            ELSE [state |-> state, succp |-> indet, old |-> state]
      [] state = "POLLING" ->
            IF new_state \in {"NOPOLLING", "LISTENING"}
            THEN [state |-> new_state, succp |-> TRUE, old |-> state]
            ELSE [state |-> state, succp |-> indet, old |-> state]
      [] state = "LISTENING" ->
            IF new_state = "POLLING"
            THEN [state |-> new_state, succp |-> TRUE, old |-> state]
            ELSE [state |-> state, succp |-> indet, old |-> state]
      [] state = "NOPOLLING" ->
            IF new_state = "ZOMBIE"
            THEN [state |-> new_state, succp |-> TRUE, old |-> state]
            ELSE IF new_state = "POLLING"
                 THEN [state |-> state, succp |-> TRUE, old |-> state]
                 ELSE [state |-> state, succp |-> indet, old |-> state]
      [] state = "ZOMBIE" ->
            IF new_state = "DISCONNECTED"
            THEN [state |-> new_state, succp |-> TRUE, old |-> state]
            ELSE IF new_state = "POLLING"
                 THEN [state |-> state, succp |-> TRUE, old |-> state]
                 ELSE [state |-> state, succp |-> indet, old |-> state]
      [] state = "DISCONNECTED" ->
            IF new_state = "FREED"
            THEN [state |-> new_state, succp |-> TRUE, old |-> state]
            ELSE [state |-> state, succp |-> indet, old |-> state]
      [] state = "FREED" ->
            [state |-> state, succp |-> indet, old |-> state]
      [] OTHER ->
            [state |-> state, succp |-> indet, old |-> state]

(***************************************************************************)
(* The transition table of the DCB state machine: the pairs for which the  *)
(* switch assigns dcb->state, and the two "ok to try but state can't       *)
(* change" pairs.                                                          *)
(***************************************************************************)
ChangingPairs ==
    {<<"UNDEFINED", s>> : s \in DcbStates}
    \cup {<<"ALLOC", "POLLING">>, <<"ALLOC", "LISTENING">>, <<"ALLOC", "DISCONNECTED">>,
          <<"POLLING", "NOPOLLING">>, <<"POLLING", "LISTENING">>,
          <<"LISTENING", "POLLING">>,
          <<"NOPOLLING", "ZOMBIE">>,
          <<"ZOMBIE", "DISCONNECTED">>,
          <<"DISCONNECTED", "FREED">>}

NoOpPairs == {<<"NOPOLLING", "POLLING">>, <<"ZOMBIE", "POLLING">>}

TablePairs == ChangingPairs \cup NoOpPairs

(***************************************************************************)
(* SpecState: the DCB starts in any state; every step is one call of       *)
(* dcb_set_state_nomutex with any new_state.                               *)
(***************************************************************************)
MaxStateCalls == 2

InitT ==
    /\ ts_state \in DcbStates
    /\ ts_new = NoState
    /\ ts_old = NoState
    /\ ts_ret = FALSE
    /\ ts_calls = 0

IdleT ==
    /\ ts_state = "UNDEFINED"
    /\ ts_new = NoState
    /\ ts_old = NoState
    /\ ts_ret = FALSE
    /\ ts_calls = 0

SetStateCall(new_state, indet) ==
    /\ UNCHANGED varsZ
    /\ ts_calls < MaxStateCalls
    /\ LET r == dcb_set_state_nomutex(ts_state, new_state, indet)
       IN  /\ ts_state' = r.state
           /\ ts_old' = r.old
           /\ ts_ret' = r.succp
    /\ ts_new' = new_state
    /\ ts_calls' = ts_calls + 1

NextT == \E n \in DcbStates, u \in BOOLEAN : SetStateCall(n, u)

(***************************************************************************)
(* The DCB life cycle.                                                     *)
(***************************************************************************)
NumWorkers == 2
MaxDCB == 2
MaxEvents == 1
MaxCloses == 2

Workers == 0 .. (NumWorkers - 1)
NoThread == NumWorkers
DCBs == 1 .. MaxDCB
NoDcb == MaxDCB + 1
Roles == {"REQUEST_HANDLER"}

InSeq(x, q) == \E i \in 1 .. Len(q) : q[i] = x
SeqSet(q) == {q[i] : i \in 1 .. Len(q)}
RemoveSeq(q, x) == SelectSeq(q, LAMBDA y : y /= x)

\* ---- the poll layer and the bitmask utility, as dcb.c uses them
bitmask_clear(mask, tid) == mask \ {tid}
bitmask_isallclear(mask) == mask = {}
bitmask_copy(src) == src
poll_remove_dcb(ps, d) == ps \ {d}
poll_add_state(r) == IF r = "REQUEST_HANDLER" THEN "POLLING" ELSE "LISTENING"

(***************************************************************************)
(* dcb_set_state: dcb_set_state_nomutex under dcb->dcb_initlock.  The      *)
(* caller's step takes and releases the lock, so the step is enabled only  *)
(* when the lock is free.                                                  *)
(***************************************************************************)
mut_set_state_zombie_refused(st, new_state, indet) ==
    IF new_state = "ZOMBIE"
    THEN [state |-> st, succp |-> FALSE, old |-> st]
    ELSE dcb_set_state_nomutex(st, new_state, indet)

dcb_set_state(st, new_state, indet) == dcb_set_state_nomutex(st, new_state, indet)

(***************************************************************************)
(* The list walk of dcb_add_to_zombieslist: dcb is linked behind the last  *)
(* entry unless the walk meets dcb itself.                                 *)
(***************************************************************************)
mut_zombie_link_always(list, d) == Append(list, d)

zombie_link(list, d) == IF InSeq(d, list) THEN list ELSE Append(list, d)

(***************************************************************************)
(* The list walk of dcb_process_zombies(threadid), made under zombiespin:  *)
(* every entry has bit threadid cleared; the entries whose bitmask is then *)
(* all clear are unlinked and chained, in list order, into dcb_list.       *)
(* walk_masks is the bitmasks after the walk, walk_split the two lists.    *)
(***************************************************************************)
mut_walk_masks_clear_all(list, masks, threadid) ==
    [d \in DOMAIN masks |-> IF InSeq(d, list) THEN {} ELSE masks[d]]

walk_masks(list, masks, threadid) ==
    [d \in DOMAIN masks |->
        IF InSeq(d, list) THEN bitmask_clear(masks[d], threadid) ELSE masks[d]]

mut_walk_split_own_bit(list, masks, threadid) ==
    [z |-> SelectSeq(list, LAMBDA d : threadid \notin masks[d]),
     v |-> SelectSeq(list, LAMBDA d : threadid \in masks[d])]

walk_split(list, masks, threadid) ==
    [z |-> SelectSeq(list, LAMBDA d :
                ~ bitmask_isallclear(bitmask_clear(masks[d], threadid))),
     v |-> SelectSeq(list, LAMBDA d :
                bitmask_isallclear(bitmask_clear(masks[d], threadid)))]

(***************************************************************************)
(* The registry unlink of dcb_final_free, under dcbspin.                   *)
(***************************************************************************)
mut_registry_unlink_none(list, d) == list

registry_unlink(list, d) == RemoveSeq(list, d)

\* A thread reads or writes a field of d: recorded when d's memory was freed.
Touch(d) == IF mem[d] = "freed" THEN uaf \cup {d} ELSE uaf

\* Where a thread is inside an event handler, inside dcb_close, inside the
\* victim loop of dcb_process_zombies.
DispatchPcs == {"handler", "c1", "c2", "c3", "z2", "z3"}
ClosePcs == {"c1", "c2", "c3", "z2", "z3"}
ReapPcs == {"pz2", "pz3", "pz4"}

InitL ==
    /\ mem = [d \in DCBs |-> "none"]
    /\ dcb_state = [d \in DCBs |-> "UNDEFINED"]
    /\ dcb_role = [d \in DCBs |-> "REQUEST_HANDLER"]
    /\ fd_open = [d \in DCBs |-> FALSE]
    /\ bitmask = [d \in DCBs |-> {}]
    /\ initlock = [d \in DCBs |-> NoThread]
    /\ allDCBs = << >>
    /\ zombies = << >>
    /\ zombiespin = NoThread
    /\ pollset = {}
    /\ pollmask = {}
    /\ pc = [t \in Workers |-> "off"]
    /\ cur = [t \in Workers |-> NoDcb]
    /\ events = [t \in Workers |-> {}]
    /\ victims = [t \in Workers |-> << >>]
    /\ succp = [t \in Workers |-> FALSE]
    /\ prev_state = [t \in Workers |-> NoState]
    /\ nclose = [t \in Workers |-> 0]
    /\ uaf = {}
    /\ nRemove = [d \in DCBs |-> 0]
    /\ nSnap = [d \in DCBs |-> 0]
    /\ nInsert = [d \in DCBs |-> 0]
    /\ nFree = [d \in DCBs |-> 0]
    /\ snapW = [d \in DCBs |-> {}]
    /\ clearedBy = [d \in DCBs |-> {}]
    /\ closeRet = {}
    /\ passed = [d \in DCBs |-> {}]

(***************************************************************************)
(* A service has started: its listener DCB was allocated with              *)
(* DCB_ROLE_SERVICE_LISTENER, listens on its port and was added to the     *)
(* poll set in DCB_STATE_LISTENING.  It is DCB 1.                          *)
(***************************************************************************)
InitListener ==
    /\ mem = [d \in DCBs |-> IF d = 1 THEN "live" ELSE "none"]
    /\ dcb_state = [d \in DCBs |-> IF d = 1 THEN "LISTENING" ELSE "UNDEFINED"]
    /\ dcb_role = [d \in DCBs |-> IF d = 1 THEN "SERVICE_LISTENER" ELSE "REQUEST_HANDLER"]
    /\ fd_open = [d \in DCBs |-> d = 1]
    /\ bitmask = [d \in DCBs |-> {}]
    /\ initlock = [d \in DCBs |-> NoThread]
    /\ allDCBs = <<1>>
    /\ zombies = << >>
    /\ zombiespin = NoThread
    /\ pollset = {1}
    /\ pollmask = {}
    /\ pc = [t \in Workers |-> "off"]
    /\ cur = [t \in Workers |-> NoDcb]
    /\ events = [t \in Workers |-> {}]
    /\ victims = [t \in Workers |-> << >>]
    /\ succp = [t \in Workers |-> FALSE]
    /\ prev_state = [t \in Workers |-> NoState]
    /\ nclose = [t \in Workers |-> 0]
    /\ uaf = {}
    /\ nRemove = [d \in DCBs |-> 0]
    /\ nSnap = [d \in DCBs |-> 0]
    /\ nInsert = [d \in DCBs |-> 0]
    /\ nFree = [d \in DCBs |-> 0]
    /\ snapW = [d \in DCBs |-> {}]
    /\ clearedBy = [d \in DCBs |-> {}]
    /\ closeRet = {}
    /\ passed = [d \in DCBs |-> {}]

(***************************************************************************)
(* dcb_alloc(role): a zeroed DCB in DCB_STATE_ALLOC, appended to allDCBs   *)
(* under dcbspin.  DCBs are numbered in allocation order.                  *)
(***************************************************************************)
DcbAlloc(d, r) ==
    /\ UNCHANGED varsX
    /\ mem[d] = "none"
    /\ \A e \in DCBs : e < d => mem[e] /= "none"
    /\ mem' = [mem EXCEPT ![d] = "live"]
    /\ dcb_role' = [dcb_role EXCEPT ![d] = r]
    /\ dcb_state' = [dcb_state EXCEPT ![d] = "ALLOC"]
    /\ bitmask' = [bitmask EXCEPT ![d] = {}]
    /\ allDCBs' = Append(allDCBs, d)
    /\ UNCHANGED <<fd_open, initlock, zombies, zombiespin, pollset, pollmask>>
    /\ UNCHANGED <<varsP, varsH>>

(***************************************************************************)
(* The DCB gets its descriptor (accept or protocol connect) and is added   *)
(* to the poll set: poll_add_dcb moves a request handler to POLLING and a  *)
(* listener to LISTENING.                                                  *)
(***************************************************************************)
PollAdd(d) ==
    /\ UNCHANGED varsX
    /\ mem[d] = "live"
    /\ dcb_state[d] = "ALLOC"
    /\ initlock[d] = NoThread
    /\ \E u \in BOOLEAN :
         LET r == dcb_set_state(dcb_state[d], poll_add_state(dcb_role[d]), u)
         IN  /\ r.succp
             /\ dcb_state' = [dcb_state EXCEPT ![d] = r.state]
    /\ fd_open' = [fd_open EXCEPT ![d] = TRUE]
    /\ pollset' = pollset \cup {d}
    /\ UNCHANGED <<mem, dcb_role, bitmask, initlock, allDCBs, zombies, zombiespin, pollmask>>
    /\ UNCHANGED <<varsP, varsH>>

(***************************************************************************)
(* A polling thread starts: the poll layer sets its bit in poll_bitmask(). *)
(***************************************************************************)
Start(t) ==
    /\ UNCHANGED varsX
    /\ pc[t] = "off"
    /\ pollmask' = pollmask \cup {t}
    /\ pc' = [pc EXCEPT ![t] = "poll"]
    /\ UNCHANGED <<varsD, allDCBs, zombies, zombiespin, pollset>>
    /\ UNCHANGED <<cur, events, victims, succp, prev_state, nclose, varsH>>

(***************************************************************************)
(* The poll call returns events for the DCBs E of the poll set and the     *)
(* thread calls the handler of the first of them, d.                       *)
(***************************************************************************)
Poll(t, E, d) ==
    /\ UNCHANGED varsX
    /\ pc[t] = "poll"
    /\ E \subseteq pollset
    /\ Cardinality(E) <= MaxEvents
    /\ d \in E
    /\ events' = [events EXCEPT ![t] = E \ {d}]
    /\ cur' = [cur EXCEPT ![t] = d]
    /\ uaf' = Touch(d)
    /\ pc' = [pc EXCEPT ![t] = "handler"]
    /\ UNCHANGED <<varsD, varsG, victims, succp, prev_state, nclose>>
    /\ UNCHANGED <<nRemove, nSnap, nInsert, nFree, snapW, clearedBy, closeRet, passed>>

\* The poll call times out with no event: the thread goes on to dcb_process_zombies.
PollTimeout(t) ==
    /\ UNCHANGED varsX
    /\ pc[t] = "poll"
    /\ pc' = [pc EXCEPT ![t] = "pz"]
    /\ UNCHANGED <<varsD, varsG, cur, events, victims, succp, prev_state, nclose, varsH>>

(***************************************************************************)
(* The handler returns.  The thread calls the handler of the next event of *)
(* the batch, or with none left goes on to dcb_process_zombies(t).         *)
(***************************************************************************)
HandlerReturn(t) ==
    /\ UNCHANGED varsX
    /\ pc[t] = "handler"
    /\ nclose' = [nclose EXCEPT ![t] = 0]
    /\ \/ /\ events[t] = {}
          /\ uaf' = Touch(cur[t])
          /\ cur' = [cur EXCEPT ![t] = NoDcb]
          /\ pc' = [pc EXCEPT ![t] = "pz"]
          /\ UNCHANGED events
       \/ \E d \in events[t] :
             /\ events' = [events EXCEPT ![t] = events[t] \ {d}]
             /\ cur' = [cur EXCEPT ![t] = d]
             /\ uaf' = (IF mem[d] = "freed" THEN {d} ELSE {}) \cup Touch(cur[t])
             /\ UNCHANGED pc
    /\ UNCHANGED <<varsD, varsG, victims, succp, prev_state>>
    /\ UNCHANGED <<nRemove, nSnap, nInsert, nFree, snapW, clearedBy, closeRet, passed>>

\* The handler calls dcb_close(dcb) on the DCB it was dispatched for.
HandlerClose(t) ==
    /\ UNCHANGED varsX
    /\ pc[t] = "handler"
    /\ nclose[t] < MaxCloses
    /\ nclose' = [nclose EXCEPT ![t] = nclose[t] + 1]
    /\ pc' = [pc EXCEPT ![t] = "c1"]
    /\ passed' = [passed EXCEPT ![cur[t]] = {}]
    /\ UNCHANGED <<varsD, varsG, cur, events, victims, succp, prev_state>>
    /\ UNCHANGED <<uaf, nRemove, nSnap, nInsert, nFree, snapW, clearedBy, closeRet>>

(***************************************************************************)
(* dcb_close(dcb).  Under dcb->dcb_initlock: the move to NOPOLLING and,    *)
(* if (succp), poll_remove_dcb and the copy of poll_bitmask() into the     *)
(* DCB's bitmask.  close_pollset and close_bitmask are the `if (succp)`    *)
(* block.                                                                  *)
(***************************************************************************)
mut_close_pollset_keep(sp, ps, d) == ps

close_pollset(sp, ps, d) == IF sp THEN poll_remove_dcb(ps, d) ELSE ps

mut_close_bitmask_self(sp, mask, live, t) == IF sp THEN {t} ELSE mask

close_bitmask(sp, mask, live, t) == IF sp THEN bitmask_copy(live) ELSE mask

\* spinlock_acquire(&dcb->dcb_initlock); succp = dcb_set_state_nomutex(...)
CloseLock(t) ==
    /\ UNCHANGED varsX
    /\ pc[t] = "c1"
    /\ initlock[cur[t]] = NoThread
    /\ \E u \in BOOLEAN :
         LET r == dcb_set_state_nomutex(dcb_state[cur[t]], "NOPOLLING", u)
         IN  /\ dcb_state' = [dcb_state EXCEPT ![cur[t]] = r.state]
             /\ succp' = [succp EXCEPT ![t] = r.succp]
             /\ prev_state' = [prev_state EXCEPT ![t] = r.old]
    /\ initlock' = [initlock EXCEPT ![cur[t]] = t]
    /\ uaf' = Touch(cur[t])
    /\ pc' = [pc EXCEPT ![t] = "c2"]
    /\ UNCHANGED <<mem, dcb_role, fd_open, bitmask, varsG>>
    /\ UNCHANGED <<cur, events, victims, nclose>>
    /\ UNCHANGED <<nRemove, nSnap, nInsert, nFree, snapW, clearedBy, closeRet, passed>>

\* if (succp) { poll_remove_dcb; bitmask_copy }; spinlock_release(&dcb->dcb_initlock)
CloseUnlock(t) ==
    /\ UNCHANGED varsX
    /\ pc[t] = "c2"
    /\ pollset' = close_pollset(succp[t], pollset, cur[t])
    /\ bitmask' = [bitmask EXCEPT
                     ![cur[t]] = close_bitmask(succp[t], bitmask[cur[t]], pollmask, t)]
    /\ nRemove' = [nRemove EXCEPT ![cur[t]] = IF succp[t] THEN @ + 1 ELSE @]
    /\ nSnap' = [nSnap EXCEPT ![cur[t]] = IF succp[t] THEN @ + 1 ELSE @]
    /\ snapW' = [snapW EXCEPT
                   ![cur[t]] = IF succp[t] /\ nSnap[cur[t]] = 0 THEN pollmask ELSE @]
    /\ initlock' = [initlock EXCEPT ![cur[t]] = NoThread]
    /\ succp' = [succp EXCEPT ![t] = FALSE]
    /\ pc' = [pc EXCEPT ![t] = "c3"]
    /\ UNCHANGED <<mem, dcb_state, dcb_role, fd_open, allDCBs, zombies, zombiespin, pollmask>>
    /\ UNCHANGED <<cur, events, victims, prev_state, nclose>>
    /\ UNCHANGED <<uaf, nInsert, nFree, clearedBy, closeRet, passed>>

\* if (dcb->state == DCB_STATE_NOPOLLING) dcb_add_to_zombieslist(dcb); else return
CloseCheck(t) ==
    /\ UNCHANGED varsX
    /\ pc[t] = "c3"
    /\ uaf' = Touch(cur[t])
    /\ \/ /\ dcb_state[cur[t]] = "NOPOLLING"
          /\ pc' = [pc EXCEPT ![t] = "z2"]
          /\ UNCHANGED <<closeRet, prev_state>>
       \/ /\ dcb_state[cur[t]] /= "NOPOLLING"
          /\ pc' = [pc EXCEPT ![t] = "handler"]
          /\ prev_state' = [prev_state EXCEPT ![t] = NoState]
          /\ closeRet' = closeRet \cup {cur[t]}
    /\ UNCHANGED <<varsD, varsG, cur, events, victims, succp, nclose>>
    /\ UNCHANGED <<nRemove, nSnap, nInsert, nFree, snapW, clearedBy, passed>>

(***************************************************************************)
(* dcb_add_to_zombieslist(dcb), called by dcb_close.                       *)
(***************************************************************************)
\* the test made under zombiespin before the list is touched
mut_zombie_rejected_never(st) == FALSE

zombie_rejected(st) == st = "ZOMBIE"

\* spinlock_acquire(&zombiespin);
\* if (dcb->state == DCB_STATE_ZOMBIE) { release; return; }  else link dcb
ZInsert(t) ==
    /\ UNCHANGED varsX
    /\ pc[t] = "z2"
    /\ zombiespin = NoThread
    /\ uaf' = Touch(cur[t])
    /\ \/ /\ zombie_rejected(dcb_state[cur[t]])
          /\ pc' = [pc EXCEPT ![t] = "handler"]
          /\ prev_state' = [prev_state EXCEPT ![t] = NoState]
          /\ closeRet' = closeRet \cup {cur[t]}
          /\ UNCHANGED <<zombies, zombiespin, nInsert>>
       \/ /\ ~ zombie_rejected(dcb_state[cur[t]])
          /\ zombiespin' = t
          /\ zombies' = zombie_link(zombies, cur[t])
          /\ nInsert' = [nInsert EXCEPT
                           ![cur[t]] = @ + Len(zombie_link(zombies, cur[t])) - Len(zombies)]
          /\ pc' = [pc EXCEPT ![t] = "z3"]
          /\ UNCHANGED <<closeRet, prev_state>>
    /\ UNCHANGED <<varsD, allDCBs, pollset, pollmask>>
    /\ UNCHANGED <<cur, events, victims, succp, nclose>>
    /\ UNCHANGED <<nRemove, nSnap, nFree, snapW, clearedBy, passed>>

\* succp = dcb_set_state(dcb, DCB_STATE_ZOMBIE, &prev_state); spinlock_release(&zombiespin)
ZSetState(t) ==
    /\ UNCHANGED varsX
    /\ pc[t] = "z3"
    /\ initlock[cur[t]] = NoThread
    /\ \E u \in BOOLEAN :
         dcb_state' = [dcb_state EXCEPT
                         ![cur[t]] = dcb_set_state(dcb_state[cur[t]], "ZOMBIE", u).state]
    /\ zombiespin' = NoThread
    /\ uaf' = Touch(cur[t])
    /\ closeRet' = closeRet \cup {cur[t]}
    /\ prev_state' = [prev_state EXCEPT ![t] = NoState]
    /\ pc' = [pc EXCEPT ![t] = "handler"]
    /\ UNCHANGED <<mem, dcb_role, fd_open, bitmask, initlock, allDCBs, zombies, pollset, pollmask>>
    /\ UNCHANGED <<cur, events, victims, succp, nclose>>
    /\ UNCHANGED <<nRemove, nSnap, nInsert, nFree, snapW, clearedBy, passed>>

(***************************************************************************)
(* dcb_process_zombies(threadid).                                          *)
(***************************************************************************)
\* passed[d]: the threads that have called dcb_process_zombies since the last
\* dcb_close(d) returned.  A call made while a dcb_close(d) is running, or
\* before any has returned, is not counted.
PassedAfter(t) ==
    [d \in DCBs |->
        IF /\ d \in closeRet
           /\ mem[d] /= "freed"
           /\ \A w \in Workers : ~ (pc[w] \in ClosePcs /\ cur[w] = d)
        THEN passed[d] \cup {t}
        ELSE passed[d]]

\* if (!zombies) return;   (the dirty read finds the list empty)
PZEmpty(t) ==
    /\ UNCHANGED varsX
    /\ pc[t] = "pz"
    /\ zombies = << >>
    /\ passed' = PassedAfter(t)
    /\ pc' = [pc EXCEPT ![t] = "poll"]
    /\ UNCHANGED <<varsD, varsG, cur, events, victims, succp, prev_state, nclose>>
    /\ UNCHANGED <<uaf, nRemove, nSnap, nInsert, nFree, snapW, clearedBy, closeRet>>

\* the walk, from spinlock_acquire(&zombiespin) to spinlock_release(&zombiespin)
PZWalk(t) ==
    /\ UNCHANGED varsX
    /\ pc[t] = "pz"
    /\ zombies /= << >>
    /\ zombiespin = NoThread
    /\ bitmask' = walk_masks(zombies, bitmask, t)
    /\ zombies' = walk_split(zombies, bitmask, t).z
    /\ victims' = [victims EXCEPT ![t] = walk_split(zombies, bitmask, t).v]
    /\ clearedBy' = [d \in DCBs |->
                        IF InSeq(d, zombies) THEN clearedBy[d] \cup {t} ELSE clearedBy[d]]
    /\ passed' = PassedAfter(t)
    /\ pc' = [pc EXCEPT ![t] = "pz2"]
    /\ UNCHANGED <<mem, dcb_state, dcb_role, fd_open, initlock, allDCBs, zombiespin, pollset, pollmask>>
    /\ UNCHANGED <<cur, events, succp, prev_state, nclose>>
    /\ UNCHANGED <<uaf, nRemove, nSnap, nInsert, nFree, snapW, closeRet>>

\* dcb = dcb_list; while (dcb != NULL) ...: no victim (left), the call returns
PZReturn(t) ==
    /\ UNCHANGED varsX
    /\ pc[t] = "pz2"
    /\ victims[t] = << >>
    /\ pc' = [pc EXCEPT ![t] = "poll"]
    /\ UNCHANGED <<varsD, varsG, cur, events, victims, succp, prev_state, nclose, varsH>>

\* close(dcb->fd): the descriptor of the victim is closed
mut_victim_fd_kept(open) == open

victim_fd(open) == FALSE

\* close(dcb->fd); succp = dcb_set_state(dcb, DCB_STATE_DISCONNECTED, NULL);
PZVictim(t) ==
    /\ UNCHANGED varsX
    /\ pc[t] = "pz2"
    /\ victims[t] /= << >>
    /\ initlock[Head(victims[t])] = NoThread
    /\ fd_open' = [fd_open EXCEPT ![Head(victims[t])] = victim_fd(@)]
    /\ \E u \in BOOLEAN :
         dcb_state' = [dcb_state EXCEPT ![Head(victims[t])] =
                         dcb_set_state(@, "DISCONNECTED", u).state]
    /\ cur' = [cur EXCEPT ![t] = Head(victims[t])]
    /\ uaf' = Touch(Head(victims[t]))
    /\ pc' = [pc EXCEPT ![t] = "pz3"]
    /\ UNCHANGED <<mem, dcb_role, bitmask, initlock, varsG>>
    /\ UNCHANGED <<events, victims, succp, prev_state, nclose>>
    /\ UNCHANGED <<nRemove, nSnap, nInsert, nFree, snapW, clearedBy, closeRet, passed>>

\* dcb_final_free(dcb): remove the DCB from the chain of all DCBs, under dcbspin
FinalFreeUnlink(t) ==
    /\ UNCHANGED varsX
    /\ pc[t] = "pz3"
    /\ allDCBs' = registry_unlink(allDCBs, cur[t])
    /\ uaf' = Touch(cur[t])
    /\ pc' = [pc EXCEPT ![t] = "pz4"]
    /\ UNCHANGED <<varsD, zombies, zombiespin, pollset, pollmask>>
    /\ UNCHANGED <<cur, events, victims, succp, prev_state, nclose>>
    /\ UNCHANGED <<nRemove, nSnap, nInsert, nFree, snapW, clearedBy, closeRet, passed>>

(***************************************************************************)
(* The loop step of dcb_process_zombies, `dcb = dcb->memdata.next`, is     *)
(* made after dcb_final_free(dcb) has freed dcb: it reads freed memory.    *)
(* The read yields the link as it was stored (`stale`) or, when the block  *)
(* has been handed out again in the meantime (dcb_alloc stores NULL in     *)
(* memdata.next), NULL, which ends the loop.                               *)
(***************************************************************************)
next_victim(vs, stale) == IF stale THEN Tail(vs) ELSE << >>

\* dcb_final_free(dcb): free(dcb); then dcb = dcb->memdata.next
FinalFreeRelease(t) ==
    /\ UNCHANGED varsX
    /\ pc[t] = "pz4"
    /\ mem' = [mem EXCEPT ![cur[t]] = "freed"]
    /\ nFree' = [nFree EXCEPT ![cur[t]] = @ + 1]
    /\ uaf' = uaf \cup {cur[t]}
    /\ \E stale \in BOOLEAN :
         /\ (~ stale) => Len(victims[t]) > 1
         /\ victims' = [victims EXCEPT ![t] = next_victim(@, stale)]
    /\ snapW' = [snapW EXCEPT ![cur[t]] = {}]
    /\ clearedBy' = [clearedBy EXCEPT ![cur[t]] = {}]
    /\ passed' = [passed EXCEPT ![cur[t]] = {}]
    /\ cur' = [cur EXCEPT ![t] = NoDcb]
    /\ pc' = [pc EXCEPT ![t] = "pz2"]
    /\ UNCHANGED <<dcb_state, dcb_role, fd_open, bitmask, initlock, varsG>>
    /\ UNCHANGED <<events, succp, prev_state, nclose>>
    /\ UNCHANGED <<nRemove, nSnap, nInsert, closeRet>>

Next ==
    \/ \E d \in DCBs, r \in Roles : DcbAlloc(d, r)
    \/ \E d \in DCBs : PollAdd(d)
    \/ \E t \in Workers : Start(t)
    \/ \E t \in Workers, E \in SUBSET DCBs, d \in DCBs : Poll(t, E, d)
    \/ \E t \in Workers : PollTimeout(t)
    \/ \E t \in Workers : HandlerReturn(t)
    \/ \E t \in Workers : HandlerClose(t)
    \/ \E t \in Workers : CloseLock(t)
    \/ \E t \in Workers : CloseUnlock(t)
    \/ \E t \in Workers : CloseCheck(t)
    \/ \E t \in Workers : ZInsert(t)
    \/ \E t \in Workers : ZSetState(t)
    \/ \E t \in Workers : PZEmpty(t)
    \/ \E t \in Workers : PZWalk(t)
    \/ \E t \in Workers : PZReturn(t)
    \/ \E t \in Workers : PZVictim(t)
    \/ \E t \in Workers : FinalFreeUnlink(t)
    \/ \E t \in Workers : FinalFreeRelease(t)

(***************************************************************************)
(* The failure paths of dcb_connect in the life cycle: the DCB that was    *)
(* just allocated and has not been given to the poll set is freed by       *)
(* dcb_connect itself, after dcb_set_state(dcb, DCB_STATE_DISCONNECTED,    *)
(* NULL) when it was the protocol's connect that failed.                   *)
(***************************************************************************)
ConnectFailures == {"MODULE", "LINK", "PROTO"}

mut_connect_fail_marks_freed(st, why, indet) == "FREED"

connect_fail_state(st, why, indet) ==
    IF why = "PROTO" THEN dcb_set_state(st, "DISCONNECTED", indet).state ELSE st

ConnectFail(d, why) ==
    /\ UNCHANGED varsX
    /\ mem[d] = "live"
    /\ dcb_state[d] = "ALLOC"
    /\ initlock[d] = NoThread
    /\ \E u \in BOOLEAN :
         dcb_state' = [dcb_state EXCEPT ![d] = connect_fail_state(@, why, u)]
    /\ allDCBs' = registry_unlink(allDCBs, d)
    /\ mem' = [mem EXCEPT ![d] = "freed"]
    /\ nFree' = [nFree EXCEPT ![d] = @ + 1]
    /\ UNCHANGED <<dcb_role, fd_open, bitmask, initlock, zombies, zombiespin, pollset, pollmask>>
    /\ UNCHANGED varsP
    /\ UNCHANGED <<uaf, nRemove, nSnap, nInsert, snapW, clearedBy, closeRet, passed>>

NextF ==
    \/ \E d \in DCBs, r \in Roles : DcbAlloc(d, r)
    \/ \E d \in DCBs : PollAdd(d)
    \/ \E t \in Workers : Start(t)
    \/ \E t \in Workers, E \in SUBSET DCBs, d \in DCBs : Poll(t, E, d)
    \/ \E t \in Workers : PollTimeout(t)
    \/ \E t \in Workers : HandlerReturn(t)
    \/ \E t \in Workers : HandlerClose(t)
    \/ \E t \in Workers : CloseLock(t)
    \/ \E t \in Workers : CloseUnlock(t)
    \/ \E t \in Workers : CloseCheck(t)
    \/ \E t \in Workers : ZInsert(t)
    \/ \E t \in Workers : ZSetState(t)
    \/ \E t \in Workers : PZEmpty(t)
    \/ \E t \in Workers : PZWalk(t)
    \/ \E t \in Workers : PZReturn(t)
    \/ \E t \in Workers : PZVictim(t)
    \/ \E t \in Workers : FinalFreeUnlink(t)
    \/ \E t \in Workers : FinalFreeRelease(t)
    \/ \E d \in DCBs, why \in ConnectFailures : ConnectFail(d, why)

(***************************************************************************)
(* The write queue: dcb_write and dcb_drain_writeq on one DCB, called by   *)
(* several threads.  Bytes are numbered in the order they are handed to    *)
(* dcb_write, so every byte is distinguishable.                            *)
(***************************************************************************)
NumWThreads == 2
MaxBytes == 3
MaxBufs == 2
MaxBufLen == 2

WThreads == 0 .. (NumWThreads - 1)
NoWThread == NumWThreads

\* errno after a failed write(): EAGAIN (and EWOULDBLOCK, the same number on
\* Linux), or any other error; "NONE" is errno 0.
Errnos == {"EAGAIN", "EPIPE"}

\* the buffer chain utility (GWBUF), as dcb.c uses it
RECURSIVE Flat(_)
Flat(chain) == IF chain = << >> THEN << >> ELSE Head(chain) \o Flat(Tail(chain))
GWBUF_LENGTH(chain) == Len(Head(chain))
gwbuf_append(head, tail) == head \o tail
gwbuf_consume(head, n) ==
    IF n >= Len(Head(head))
    THEN Tail(head)
    ELSE <<SubSeq(Head(head), n + 1, Len(Head(head)))>> \o Tail(head)

\* the chains a caller may hand to dcb_write: 1..MaxBufs buffers of 1..MaxBufLen bytes
Shapes == UNION {[1 .. k -> 1 .. MaxBufLen] : k \in 1 .. MaxBufs}
RECURSIVE SumTo(_, _)
SumTo(shape, k) == IF k = 0 THEN 0 ELSE shape[k] + SumTo(shape, k - 1)
ShapeBytes(shape) == SumTo(shape, Len(shape))
\* the chain of that shape holding the bytes first + 1, first + 2, ...
MakeChain(shape, first) ==
    [i \in 1 .. Len(shape) |->
        [j \in 1 .. shape[i] |-> first + SumTo(shape, i - 1) + j]]

IdleW ==
    /\ writeq = << >>
    /\ writeqlock = NoWThread
    /\ wire = << >>
    /\ wpc = [t \in WThreads |-> "idle"]
    /\ queue = [t \in WThreads |-> << >>]
    /\ saved_errno = [t \in WThreads |-> "NONE"]
    /\ wn = [t \in WThreads |-> 0]
    /\ wret = [t \in WThreads |-> 0]
    /\ order = << >>
    /\ nbytes = 0
    /\ dshort = [t \in WThreads |-> FALSE]
    /\ wire0 = [t \in WThreads |-> 0]

(***************************************************************************)
(* dcb_write(dcb, queue).                                                  *)
(***************************************************************************)
\* `if (dcb->writeq)`: there is queued data, the chain is appended and nothing is sent
mut_write_never_queues(wq) == FALSE

write_must_queue(wq) == wq /= << >>

\* the return statement: 0 if (queue && (saved_errno != EAGAIN || saved_errno != EWOULDBLOCK))
mut_write_return_any_rest(q, eno) == IF q /= << >> THEN 0 ELSE 1

dcb_write_return(q, eno) == IF q /= << >> /\ eno /= "EAGAIN" THEN 0 ELSE 1

\* a thread calls dcb_write with a new chain
WriteCall(t, shape) ==
    /\ UNCHANGED varsY
    /\ dshort' = [dshort EXCEPT ![t] = FALSE]
    /\ UNCHANGED wire0
    /\ wpc[t] = "idle"
    /\ nbytes + ShapeBytes(shape) <= MaxBytes
    /\ queue' = [queue EXCEPT ![t] = MakeChain(shape, nbytes)]
    /\ nbytes' = nbytes + ShapeBytes(shape)
    /\ saved_errno' = [saved_errno EXCEPT ![t] = "NONE"]
    /\ wpc' = [wpc EXCEPT ![t] = "w1"]
    /\ UNCHANGED <<writeq, writeqlock, wire, wn, wret, order>>

\* spinlock_acquire(&dcb->writeqlock); if (dcb->writeq) append; else go to the send loop
WriteLock(t) ==
    /\ UNCHANGED varsY
    /\ UNCHANGED <<dshort, wire0>>
    /\ wpc[t] = "w1"
    /\ writeqlock = NoWThread
    /\ writeqlock' = t
    /\ order' = order \o Flat(queue[t])
    /\ \/ /\ write_must_queue(writeq)
          /\ writeq' = gwbuf_append(writeq, queue[t])
          /\ wpc' = [wpc EXCEPT ![t] = "w3"]
       \/ /\ ~ write_must_queue(writeq)
          /\ wpc' = [wpc EXCEPT ![t] = "w2"]
          /\ UNCHANGED writeq
    /\ UNCHANGED <<wire, queue, saved_errno, wn, wret, nbytes>>

\* one write(dcb->fd, GWBUF_DATA(queue), len) of the loop that accepts w bytes
WriteSend(t, w) ==
    /\ UNCHANGED varsY
    /\ UNCHANGED <<dshort, wire0>>
    /\ wpc[t] = "w2"
    /\ queue[t] /= << >>
    /\ w \in 1 .. GWBUF_LENGTH(queue[t])
    /\ wire' = wire \o SubSeq(Head(queue[t]), 1, w)
    /\ queue' = [queue EXCEPT ![t] = gwbuf_consume(@, w)]
    /\ saved_errno' = [saved_errno EXCEPT ![t] = "NONE"]
    /\ UNCHANGED <<writeq, writeqlock, wpc, wn, wret, order, nbytes>>

\* one write() of the loop that fails (w < 0): break
WriteFail(t, eno) ==
    /\ UNCHANGED varsY
    /\ UNCHANGED <<dshort, wire0>>
    /\ wpc[t] = "w2"
    /\ queue[t] /= << >>
    /\ saved_errno' = [saved_errno EXCEPT ![t] = eno]
    /\ writeq' = queue[t]
    /\ wpc' = [wpc EXCEPT ![t] = "w3"]
    /\ UNCHANGED <<writeqlock, wire, queue, wn, wret, order, nbytes>>

\* the loop ends with queue == NULL; dcb->writeq = queue
WriteDone(t) ==
    /\ UNCHANGED varsY
    /\ UNCHANGED <<dshort, wire0>>
    /\ wpc[t] = "w2"
    /\ queue[t] = << >>
    /\ writeq' = queue[t]
    /\ wpc' = [wpc EXCEPT ![t] = "w3"]
    /\ UNCHANGED <<writeqlock, wire, queue, saved_errno, wn, wret, order, nbytes>>

\* spinlock_release(&dcb->writeqlock); return.  saved_errno[t] keeps the value
\* the call returned with until the thread's next call.
WriteUnlock(t) ==
    /\ UNCHANGED varsY
    /\ UNCHANGED <<dshort, wire0>>
    /\ wpc[t] = "w3"
    /\ writeqlock' = NoWThread
    /\ wret' = [wret EXCEPT ![t] = dcb_write_return(queue[t], saved_errno[t])]
    /\ queue' = [queue EXCEPT ![t] = << >>]
    /\ wpc' = [wpc EXCEPT ![t] = "idle"]
    /\ UNCHANGED <<writeq, wire, saved_errno, wn, order, nbytes>>

(***************************************************************************)
(* dcb_drain_writeq(dcb).                                                  *)
(***************************************************************************)
\* `n += w`: the bytes sent so far by the call
mut_drain_count_last(n, w) == w

drain_count(n, w) == n + w

\* int n = 0; int saved_errno = 0; spinlock_acquire(&dcb->writeqlock)
DrainLock(t) ==
    /\ UNCHANGED varsY
    /\ wpc[t] = "idle"
    /\ writeqlock = NoWThread
    /\ writeqlock' = t
    /\ wn' = [wn EXCEPT ![t] = 0]
    /\ saved_errno' = [saved_errno EXCEPT ![t] = "NONE"]
    /\ dshort' = [dshort EXCEPT ![t] = FALSE]
    /\ wire0' = [wire0 EXCEPT ![t] = Len(wire)]
    /\ wpc' = [wpc EXCEPT ![t] = "d2"]
    /\ UNCHANGED <<writeq, wire, queue, wret, order, nbytes>>

\* one write(dcb->fd, GWBUF_DATA(dcb->writeq), len) of the loop that accepts w bytes
DrainSend(t, w) ==
    /\ UNCHANGED varsY
    /\ wpc[t] = "d2"
    /\ writeq /= << >>
    /\ w \in 1 .. GWBUF_LENGTH(writeq)
    /\ wire' = wire \o SubSeq(Head(writeq), 1, w)
    /\ writeq' = gwbuf_consume(writeq, w)
    /\ wn' = [wn EXCEPT ![t] = drain_count(@, w)]
    /\ dshort' = [dshort EXCEPT ![t] = @ \/ w < GWBUF_LENGTH(writeq)]
    /\ UNCHANGED wire0
    /\ UNCHANGED <<writeqlock, wpc, queue, saved_errno, wret, order, nbytes>>

\* the loop ends: the queue is empty, or a write() failed (break);
\* spinlock_release(&dcb->writeqlock); return n
DrainUnlock(t, failed) ==
    /\ UNCHANGED varsY
    /\ wire0' = [wire0 EXCEPT ![t] = 0]
    /\ UNCHANGED dshort
    /\ wpc[t] = "d2"
    /\ failed = (writeq /= << >>)
    /\ writeqlock' = NoWThread
    /\ wret' = [wret EXCEPT ![t] = wn[t]]
    /\ wn' = [wn EXCEPT ![t] = 0]
    /\ wpc' = [wpc EXCEPT ![t] = "idle"]
    /\ UNCHANGED <<writeq, wire, queue, saved_errno, order, nbytes>>

NextW ==
    \/ \E t \in WThreads, shape \in Shapes : WriteCall(t, shape)
    \/ \E t \in WThreads : WriteLock(t)
    \/ \E t \in WThreads, w \in 1 .. MaxBufLen : WriteSend(t, w)
    \/ \E t \in WThreads, eno \in Errnos : WriteFail(t, eno)
    \/ \E t \in WThreads : WriteDone(t)
    \/ \E t \in WThreads : WriteUnlock(t)
    \/ \E t \in WThreads : DrainLock(t)
    \/ \E t \in WThreads, w \in 1 .. MaxBufLen : DrainSend(t, w)
    \/ \E t \in WThreads, failed \in BOOLEAN : DrainUnlock(t, failed)

(***************************************************************************)
(* dcb_read(dcb, head) by one thread on one DCB.  The peer sends numbered   *)
(* bytes and may close; another thread reading the same descriptor may     *)
(* take bytes away between the FIONREAD query and the read().              *)
(***************************************************************************)
MAX_BUFFER_SIZE == 2
MaxPeerBytes == 5
MaxReads == 2

ReadErrnos == {"EAGAIN", "ECONNRESET"}
Garbage == 0

\* int bufsize = b < MAX_BUFFER_SIZE ? b : MAX_BUFFER_SIZE;
mut_read_bufsize_all(b) == b

read_bufsize(b) == IF b < MAX_BUFFER_SIZE THEN b ELSE MAX_BUFFER_SIZE

\* gwbuf_alloc failed: return n ? n : -1;
alloc_fail_return(n) == IF n /= 0 THEN n ELSE -1

\* read() failed (n < 0): return n for EAGAIN/EWOULDBLOCK, else n ? n : -1
read_fail_return(n, eno) ==
    IF eno = "EAGAIN" THEN n ELSE (IF n /= 0 THEN n ELSE -1)

\* the final `return n;` and the `return n;` of the n == 0 branch
mut_read_return_nothing_as_error(n) == IF n = 0 THEN -1 ELSE n

read_loop_return(n) == n

\* the buffer gwbuf_alloc(bufsize) returns after read() stored k bytes in it:
\* its length stays bufsize
ReadBuffer(data, bufsize, k) ==
    [i \in 1 .. bufsize |-> IF i <= k THEN data[i] ELSE Garbage]

IdleR ==
    /\ rd_kernel = << >>
    /\ rd_closed = FALSE
    /\ rd_sent = 0
    /\ rd_pc = "idle"
    /\ rd_head = << >>
    /\ rd_b = 0
    /\ rd_n = 0
    /\ rd_ret = 0
    /\ rd_calls = 0
    /\ rd_app = << >>
    /\ rd_why = "NONE"
    /\ rd_b0 = 0
    /\ rd_quiet = TRUE

\* the peer sends k more bytes
PeerSend(k) ==
    /\ UNCHANGED <<varsT, varsL, varsW, varsC, varsE>>
    /\ ~ rd_closed
    /\ rd_sent + k <= MaxPeerBytes
    /\ rd_kernel' = rd_kernel \o [i \in 1 .. k |-> rd_sent + i]
    /\ rd_sent' = rd_sent + k
    /\ rd_quiet' = (rd_quiet /\ rd_pc = "idle")
    /\ UNCHANGED <<rd_closed, rd_pc, rd_head, rd_b, rd_n, rd_ret, rd_calls, rd_app, rd_why, rd_b0>>

\* the peer closes the connection
PeerClose ==
    /\ UNCHANGED <<varsT, varsL, varsW, varsC, varsE>>
    /\ ~ rd_closed
    /\ rd_closed' = TRUE
    /\ UNCHANGED <<rd_kernel, rd_sent, rd_pc, rd_head, rd_b, rd_n, rd_ret, rd_calls,
                   rd_app, rd_why, rd_b0, rd_quiet>>

\* another thread reads k bytes from the same descriptor while the call runs
OtherReader(k) ==
    /\ UNCHANGED <<varsT, varsL, varsW, varsC, varsE>>
    /\ rd_pc /= "idle"
    /\ k <= Len(rd_kernel)
    /\ rd_kernel' = SubSeq(rd_kernel, k + 1, Len(rd_kernel))
    /\ rd_quiet' = FALSE
    /\ UNCHANGED <<rd_closed, rd_sent, rd_pc, rd_head, rd_b, rd_n, rd_ret, rd_calls,
                   rd_app, rd_why, rd_b0>>

\* what read(dcb->fd, GWBUF_DATA(buffer), bufsize) does on the non-blocking
\* socket: the bytes available up to bufsize; with none, 0 after the peer's
\* close and -1 with EAGAIN before it
kernel_read(kernel, closed, bufsize) ==
    IF kernel /= << >>
    THEN IF Len(kernel) < bufsize THEN Len(kernel) ELSE bufsize
    ELSE IF closed THEN 0 ELSE -1

\* dcb_read is called; rc = ioctl(dcb->fd, FIONREAD, &b); if (rc == -1) return -1
ReadCall(ok) ==
    /\ UNCHANGED <<varsT, varsL, varsW, varsC, varsE>>
    /\ rd_pc = "idle"
    /\ rd_calls < MaxReads
    /\ rd_calls' = rd_calls + 1
    /\ rd_n' = 0
    /\ rd_app' = << >>
    /\ rd_quiet' = TRUE
    /\ IF ok
       THEN /\ rd_b' = Len(rd_kernel)
            /\ rd_b0' = Len(rd_kernel)
            /\ rd_why' = "NONE"
            /\ rd_pc' = "loop"
            /\ UNCHANGED rd_ret
       ELSE /\ rd_ret' = -1
            /\ rd_why' = "IOCTL"
            /\ rd_b0' = 0
            /\ UNCHANGED <<rd_b, rd_pc>>
    /\ UNCHANGED <<rd_kernel, rd_closed, rd_sent, rd_head>>

\* while (b > 0) is left; return n
ReadLoopExit ==
    /\ UNCHANGED <<varsT, varsL, varsW, varsC, varsE>>
    /\ rd_pc = "loop"
    /\ rd_b <= 0
    /\ rd_ret' = read_loop_return(rd_n)
    /\ rd_why' = "DONE"
    /\ rd_pc' = "idle"
    /\ UNCHANGED <<rd_kernel, rd_closed, rd_sent, rd_head, rd_b, rd_n, rd_calls,
                   rd_app, rd_b0, rd_quiet>>

\* gwbuf_alloc(bufsize) returns NULL: return n ? n : -1
ReadAllocFail ==
    /\ UNCHANGED <<varsT, varsL, varsW, varsC, varsE>>
    /\ rd_pc = "loop"
    /\ rd_b > 0
    /\ rd_ret' = alloc_fail_return(rd_n)
    /\ rd_why' = "ALLOC"
    /\ rd_pc' = "idle"
    /\ UNCHANGED <<rd_kernel, rd_closed, rd_sent, rd_head, rd_b, rd_n, rd_calls,
                   rd_app, rd_b0, rd_quiet>>

\* one iteration up to the append: n = read(...); the n < 0 and n == 0 returns;
\* *head = gwbuf_append(*head, buffer).  reset: the read fails with ECONNRESET.
ReadRead(reset) ==
    /\ UNCHANGED <<varsT, varsL, varsW, varsC, varsE>>
    /\ rd_pc = "loop"
    /\ rd_b > 0
    /\ LET bufsize == read_bufsize(rd_b)
           k == IF reset THEN -1 ELSE kernel_read(rd_kernel, rd_closed, bufsize)
           eno == IF reset THEN "ECONNRESET" ELSE "EAGAIN"
       IN  /\ rd_n' = k
           /\ IF k < 0
              THEN /\ rd_ret' = read_fail_return(k, eno)
                   /\ rd_why' = eno
                   /\ rd_pc' = "idle"
                   /\ UNCHANGED <<rd_kernel, rd_head, rd_app>>
              ELSE IF k = 0
              THEN /\ rd_ret' = read_loop_return(k)
                   /\ rd_why' = "EOF"
                   /\ rd_pc' = "idle"
                   /\ UNCHANGED <<rd_kernel, rd_head, rd_app>>
              ELSE /\ rd_head' = gwbuf_append(rd_head, <<ReadBuffer(rd_kernel, bufsize, k)>>)
                   /\ rd_app' = Append(rd_app, <<bufsize, k>>)
                   /\ rd_kernel' = SubSeq(rd_kernel, k + 1, Len(rd_kernel))
                   /\ rd_pc' = "reioctl"
                   /\ UNCHANGED <<rd_ret, rd_why>>
    /\ UNCHANGED <<rd_closed, rd_sent, rd_b, rd_calls, rd_b0, rd_quiet>>

\* rc = ioctl(dcb->fd, FIONREAD, &b) at the end of the iteration
ReadReioctl(ok) ==
    /\ UNCHANGED <<varsT, varsL, varsW, varsC, varsE>>
    /\ rd_pc = "reioctl"
    /\ IF ok
       THEN /\ rd_b' = Len(rd_kernel)
            /\ rd_pc' = "loop"
            /\ UNCHANGED <<rd_ret, rd_why>>
       ELSE /\ rd_ret' = -1
            /\ rd_why' = "IOCTL"
            /\ rd_pc' = "idle"
            /\ UNCHANGED rd_b
    /\ UNCHANGED <<rd_kernel, rd_closed, rd_sent, rd_head, rd_n, rd_calls,
                   rd_app, rd_b0, rd_quiet>>

NextR ==
    \/ \E k \in 1 .. MaxPeerBytes : PeerSend(k)
    \/ PeerClose
    \/ \E k \in 1 .. MaxPeerBytes : OtherReader(k)
    \/ \E ok \in BOOLEAN : ReadCall(ok)
    \/ ReadLoopExit
    \/ ReadAllocFail
    \/ \E reset \in BOOLEAN : ReadRead(reset)
    \/ \E ok \in BOOLEAN : ReadReioctl(ok)

(***************************************************************************)
(* dcb_connect(server, session, protocol) and dcb_final_free(dcb): threads *)
(* connect DCBs for one session to one server; a connect that fails runs   *)
(* dcb_final_free itself, a DCB that was connected is later freed by the   *)
(* reaper.                                                                 *)
(***************************************************************************)
NumCThreads == 2

CThreads == 0 .. (NumCThreads - 1)
NoCThread == NumCThreads
FreePcs == {"ff1", "ff2", "ff3", "ff4", "ff5", "ff6", "ff7"}

\* the life cycle variables dcb_connect and dcb_final_free leave alone
varsLC == <<initlock, zombies, zombiespin, pollmask, varsP,
            uaf, nRemove, nSnap, nInsert, snapW, clearedBy, closeRet, passed>>

\* session_link_dcb and session_free, as dcb.c uses them: the session counts
\* the DCBs linked to it and is freed when the last of them lets go
session_link_dcb(refs) == refs + 1
session_free_refs(refs) == refs - 1
session_free_mem(refs) == IF refs - 1 = 0 THEN "freed" ELSE "live"

\* dcb->session->router_session = NULL, after rsession took its value
mut_swap_keeps_router(rs) == rs

swap_router(rs) == "NULL"

IdleC ==
    /\ cn_pc = [t \in CThreads |-> "idle"]
    /\ cn_dcb = [t \in CThreads |-> NoDcb]
    /\ cn_why = [t \in CThreads |-> "NONE"]
    /\ cn_ret = [t \in CThreads |-> "none"]
    /\ cn_rsession = [t \in CThreads |-> "NULL"]
    /\ dcb_session = [d \in DCBs |-> FALSE]
    /\ ss_router = "RS"
    /\ ss_lock = NoCThread
    /\ ss_refs = 0
    /\ ss_mem = "live"
    /\ n_connections = 0
    /\ n_current = 0
    /\ nCloseSession = 0
    /\ ss_had = TRUE

\* the session comes with or without a router session
InitC ==
    /\ cn_pc = [t \in CThreads |-> "idle"]
    /\ cn_dcb = [t \in CThreads |-> NoDcb]
    /\ cn_why = [t \in CThreads |-> "NONE"]
    /\ cn_ret = [t \in CThreads |-> "none"]
    /\ cn_rsession = [t \in CThreads |-> "NULL"]
    /\ dcb_session = [d \in DCBs |-> FALSE]
    /\ ss_router \in {"RS", "NULL"}
    /\ ss_lock = NoCThread
    /\ ss_refs = 0
    /\ ss_mem = "live"
    /\ n_connections = 0
    /\ n_current = 0
    /\ nCloseSession = 0
    /\ ss_had = (ss_router = "RS")

\* dcb_connect is called: dcb = dcb_alloc(DCB_ROLE_REQUEST_HANDLER)
ConnAlloc(t, d) ==
    /\ UNCHANGED <<varsT, varsW, varsR, varsLC, varsE>>
    /\ cn_pc[t] = "idle"
    /\ mem[d] = "none"
    /\ \A e \in DCBs : e < d => mem[e] /= "none"
    /\ mem' = [mem EXCEPT ![d] = "live"]
    /\ dcb_role' = [dcb_role EXCEPT ![d] = "REQUEST_HANDLER"]
    /\ dcb_state' = [dcb_state EXCEPT ![d] = "ALLOC"]
    /\ bitmask' = [bitmask EXCEPT ![d] = {}]
    /\ allDCBs' = Append(allDCBs, d)
    /\ cn_dcb' = [cn_dcb EXCEPT ![t] = d]
    /\ cn_why' = [cn_why EXCEPT ![t] = "NONE"]
    /\ cn_ret' = [cn_ret EXCEPT ![t] = "none"]
    /\ cn_pc' = [cn_pc EXCEPT ![t] = "load"]
    /\ UNCHANGED <<fd_open, pollset, nFree>>
    /\ UNCHANGED <<cn_rsession, dcb_session, ss_router, ss_lock, ss_refs, ss_mem,
                   n_connections, n_current, nCloseSession, ss_had>>

\* funcs = load_module(protocol, MODULE_PROTOCOL); NULL: dcb_final_free(dcb)
ConnLoad(t, ok) ==
    /\ UNCHANGED <<varsT, varsW, varsR, varsL, varsE>>
    /\ cn_pc[t] = "load"
    /\ cn_why' = [cn_why EXCEPT ![t] = IF ok THEN "NONE" ELSE "MODULE"]
    /\ cn_pc' = [cn_pc EXCEPT ![t] = IF ok THEN "link" ELSE "ff1"]
    /\ UNCHANGED <<cn_dcb, cn_ret, cn_rsession, dcb_session, ss_router, ss_lock, ss_refs,
                   ss_mem, n_connections, n_current, nCloseSession, ss_had>>

\* session_link_dcb(session, dcb); false (the session has been removed):
\* dcb_final_free(dcb)
ConnLink(t, ok) ==
    /\ UNCHANGED <<varsT, varsW, varsR, varsL, varsE>>
    /\ cn_pc[t] = "link"
    /\ ok => ss_mem = "live"
    /\ dcb_session' = [dcb_session EXCEPT ![cn_dcb[t]] = ok]
    /\ ss_refs' = IF ok THEN session_link_dcb(ss_refs) ELSE ss_refs
    /\ cn_why' = [cn_why EXCEPT ![t] = IF ok THEN "NONE" ELSE "LINK"]
    /\ cn_pc' = [cn_pc EXCEPT ![t] = IF ok THEN "proto" ELSE "ff1"]
    /\ UNCHANGED <<cn_dcb, cn_ret, cn_rsession, ss_router, ss_lock, ss_mem,
                   n_connections, n_current, nCloseSession, ss_had>>

\* atomic_add(&server->stats.n_connections, 1) and (&server->stats.n_current, 1)
\* are reached only when the protocol's connect gave a descriptor
mut_connect_count_always(n, ok) == n + 1

connect_count(n, ok) == IF ok THEN n + 1 ELSE n

\* dcb->fd = dcb->func.connect(dcb, server, session).  -1: dcb_set_state(dcb,
\* DCB_STATE_DISCONNECTED, NULL) and dcb_final_free(dcb).  Otherwise the
\* protocol has put the DCB into the poll set, the counters of the server are
\* incremented and dcb is returned.
ConnProto(t, ok, indet) ==
    LET d == cn_dcb[t]
        r == dcb_set_state(dcb_state[d], IF ok THEN poll_add_state(dcb_role[d])
                                               ELSE "DISCONNECTED", indet)
    IN  /\ UNCHANGED <<varsT, varsW, varsR, varsLC, varsE>>
        /\ cn_pc[t] = "proto"
        /\ initlock[d] = NoThread
        /\ dcb_state' = [dcb_state EXCEPT ![d] = r.state]
        /\ fd_open' = [fd_open EXCEPT ![d] = ok]
        /\ pollset' = IF ok THEN pollset \cup {d} ELSE pollset
        /\ n_connections' = connect_count(n_connections, ok)
        /\ n_current' = connect_count(n_current, ok)
        /\ cn_why' = [cn_why EXCEPT ![t] = IF ok THEN "NONE" ELSE "PROTO"]
        /\ cn_ret' = [cn_ret EXCEPT ![t] = IF ok THEN "DCB" ELSE "none"]
        /\ cn_pc' = [cn_pc EXCEPT ![t] = IF ok THEN "idle" ELSE "ff1"]
        /\ UNCHANGED <<mem, dcb_role, bitmask, allDCBs, nFree>>
        /\ UNCHANGED <<cn_dcb, cn_rsession, dcb_session, ss_router, ss_lock, ss_refs,
                       ss_mem, nCloseSession, ss_had>>

\* A connected DCB has been closed and has waited on the zombies list until
\* no thread was left in its bitmask; dcb_process_zombies closes its
\* descriptor, sets DCB_STATE_DISCONNECTED and calls dcb_final_free(dcb).
ReapStart(t, d) ==
    /\ UNCHANGED <<varsT, varsW, varsR, varsLC, varsE>>
    /\ cn_pc[t] = "idle"
    /\ mem[d] = "live"
    /\ dcb_state[d] = "POLLING"
    /\ \A u \in CThreads : cn_pc[u] /= "idle" => cn_dcb[u] /= d
    /\ dcb_state' = [dcb_state EXCEPT ![d] = "DISCONNECTED"]
    /\ fd_open' = [fd_open EXCEPT ![d] = FALSE]
    /\ pollset' = poll_remove_dcb(pollset, d)
    /\ cn_dcb' = [cn_dcb EXCEPT ![t] = d]
    /\ cn_why' = [cn_why EXCEPT ![t] = "REAP"]
    /\ cn_ret' = [cn_ret EXCEPT ![t] = "none"]
    /\ cn_pc' = [cn_pc EXCEPT ![t] = "ff1"]
    /\ UNCHANGED <<mem, dcb_role, bitmask, allDCBs, nFree>>
    /\ UNCHANGED <<cn_rsession, dcb_session, ss_router, ss_lock, ss_refs, ss_mem,
                   n_connections, n_current, nCloseSession, ss_had>>

\* dcb_final_free: the DCB is taken off the list of all DCBs
FreeUnlink(t) ==
    /\ UNCHANGED <<varsT, varsW, varsR, varsLC, varsE>>
    /\ cn_pc[t] = "ff1"
    /\ allDCBs' = registry_unlink(allDCBs, cn_dcb[t])
    /\ cn_pc' = [cn_pc EXCEPT ![t] = "ff2"]
    /\ UNCHANGED <<mem, dcb_state, dcb_role, fd_open, bitmask, pollset, nFree>>
    /\ UNCHANGED <<cn_dcb, cn_why, cn_ret, cn_rsession, dcb_session, ss_router, ss_lock,
                   ss_refs, ss_mem, n_connections, n_current, nCloseSession, ss_had>>

\* if (service != NULL && service->router != NULL &&
\*     dcb->session->router_session != NULL), read without the session lock
FreeCheck(t) ==
    /\ UNCHANGED <<varsT, varsW, varsR, varsL, varsE>>
    /\ cn_pc[t] = "ff2"
    /\ cn_rsession' = [cn_rsession EXCEPT ![t] = "NULL"]
    /\ cn_pc' = [cn_pc EXCEPT ![t] =
                    IF dcb_session[cn_dcb[t]] /\ ss_router /= "NULL" THEN "ff3" ELSE "ff6"]
    /\ UNCHANGED <<cn_dcb, cn_why, cn_ret, dcb_session, ss_router, ss_lock, ss_refs,
                   ss_mem, n_connections, n_current, nCloseSession, ss_had>>

\* spinlock_acquire(&dcb->session->ses_lock)
FreeLock(t) ==
    /\ UNCHANGED <<varsT, varsW, varsR, varsL, varsE>>
    /\ cn_pc[t] = "ff3"
    /\ ss_lock = NoCThread
    /\ ss_lock' = t
    /\ cn_pc' = [cn_pc EXCEPT ![t] = "ff4"]
    /\ UNCHANGED <<cn_dcb, cn_why, cn_ret, cn_rsession, dcb_session, ss_router, ss_refs,
                   ss_mem, n_connections, n_current, nCloseSession, ss_had>>

\* rsession = dcb->session->router_session;
\* dcb->session->router_session = NULL; spinlock_release(&dcb->session->ses_lock)
FreeSwap(t) ==
    /\ UNCHANGED <<varsT, varsW, varsR, varsL, varsE>>
    /\ cn_pc[t] = "ff4"
    /\ cn_rsession' = [cn_rsession EXCEPT ![t] = ss_router]
    /\ ss_router' = swap_router(ss_router)
    /\ ss_lock' = NoCThread
    /\ cn_pc' = [cn_pc EXCEPT ![t] = "ff5"]
    /\ UNCHANGED <<cn_dcb, cn_why, cn_ret, dcb_session, ss_refs, ss_mem,
                   n_connections, n_current, nCloseSession, ss_had>>

\* if (rsession != NULL) service->router->closeSession(..., rsession);
\* otherwise only a log entry is written
FreeCloseSession(t) ==
    /\ UNCHANGED <<varsT, varsW, varsR, varsL, varsE>>
    /\ cn_pc[t] = "ff5"
    /\ nCloseSession' = IF cn_rsession[t] /= "NULL" THEN nCloseSession + 1
                                                     ELSE nCloseSession
    /\ cn_pc' = [cn_pc EXCEPT ![t] = "ff6"]
    /\ UNCHANGED <<cn_dcb, cn_why, cn_ret, cn_rsession, dcb_session, ss_router, ss_lock,
                   ss_refs, ss_mem, n_connections, n_current, ss_had>>

\* if (dcb->session) { local_session = dcb->session; dcb->session = NULL;
\* session_free(local_session); }
FreeSession(t) ==
    LET d == cn_dcb[t]
    IN  /\ UNCHANGED <<varsT, varsW, varsR, varsL, varsE>>
        /\ cn_pc[t] = "ff6"
        /\ dcb_session' = [dcb_session EXCEPT ![d] = FALSE]
        /\ ss_refs' = IF dcb_session[d] THEN session_free_refs(ss_refs) ELSE ss_refs
        /\ ss_mem' = IF dcb_session[d] THEN session_free_mem(ss_refs) ELSE ss_mem
        /\ cn_pc' = [cn_pc EXCEPT ![t] = "ff7"]
        /\ UNCHANGED <<cn_dcb, cn_why, cn_ret, cn_rsession, ss_router, ss_lock,
                       n_connections, n_current, nCloseSession, ss_had>>

\* free(dcb); back in dcb_connect: return NULL
FreeRelease(t) ==
    LET d == cn_dcb[t]
    IN  /\ UNCHANGED <<varsT, varsW, varsR, varsLC, varsE>>
        /\ cn_pc[t] = "ff7"
        /\ mem' = [mem EXCEPT ![d] = "freed"]
        /\ nFree' = [nFree EXCEPT ![d] = @ + 1]
        /\ cn_ret' = [cn_ret EXCEPT ![t] = IF cn_why[t] = "REAP" THEN @ ELSE "NULL"]
        /\ cn_pc' = [cn_pc EXCEPT ![t] = "idle"]
        /\ UNCHANGED <<dcb_state, dcb_role, fd_open, bitmask, allDCBs, pollset>>
        /\ UNCHANGED <<cn_dcb, cn_why, cn_rsession, dcb_session, ss_router, ss_lock,
                       ss_refs, ss_mem, n_connections, n_current, nCloseSession, ss_had>>

NextC ==
    \/ \E t \in CThreads, d \in DCBs : ConnAlloc(t, d)
    \/ \E t \in CThreads, ok \in BOOLEAN : ConnLoad(t, ok)
    \/ \E t \in CThreads, ok \in BOOLEAN : ConnLink(t, ok)
    \/ \E t \in CThreads, ok \in BOOLEAN, indet \in BOOLEAN : ConnProto(t, ok, indet)
    \/ \E t \in CThreads, d \in DCBs : ReapStart(t, d)
    \/ \E t \in CThreads : FreeUnlink(t)
    \/ \E t \in CThreads : FreeCheck(t)
    \/ \E t \in CThreads : FreeLock(t)
    \/ \E t \in CThreads : FreeSwap(t)
    \/ \E t \in CThreads : FreeCloseSession(t)
    \/ \E t \in CThreads : FreeSession(t)
    \/ \E t \in CThreads : FreeRelease(t)

(***************************************************************************)
(* dcb_alloc(role) with the chain of all DCBs as the pointers the code     *)
(* keeps: allDCBs and dcb->next.  Threads allocate concurrently; a DCB     *)
(* that was returned may be taken off the chain and freed by               *)
(* dcb_final_free.                                                         *)
(***************************************************************************)
NumAllocThreads == 2

AThreads == 0 .. (NumAllocThreads - 1)
NoAThread == NumAllocThreads
AllocRoles == {"REQUEST_HANDLER", "SERVICE_LISTENER"}
InAllocPcs == {"lock", "head", "walk", "unlock"}

\* the life cycle variables dcb_alloc leaves alone
varsLA == <<fd_open, initlock, varsG, varsP, varsH>>

\* the DCBs reached from h over dcb->next, at most n of them
RECURSIVE ChainFrom(_, _, _)
ChainFrom(h, nxt, n) ==
    IF h = NoDcb \/ n = 0 THEN << >> ELSE <<h>> \o ChainFrom(nxt[h], nxt, n - 1)

Chain == ChainFrom(rg_head, rg_next, MaxDCB + 1)

\* spinlock_acquire(&dcbspin) gets the lock when no thread holds it
mut_alloc_lock_ignored(holder) == TRUE

alloc_lock_free(holder) == holder = NoAThread

\* the DCB in front of d on the chain, NoDcb when there is none
chain_pred(h, nxt, d) ==
    IF \E p \in DCBs : InSeq(p, ChainFrom(h, nxt, MaxDCB + 1)) /\ nxt[p] = d
    THEN CHOOSE p \in DCBs : InSeq(p, ChainFrom(h, nxt, MaxDCB + 1)) /\ nxt[p] = d
    ELSE NoDcb

IdleA ==
    /\ dcbspin = NoAThread
    /\ rg_head = NoDcb
    /\ rg_next = [d \in DCBs |-> NoDcb]
    /\ dcb_memnext = [d \in DCBs |-> NoDcb]
    /\ dcb_writeq = [d \in DCBs |-> "NULL"]
    /\ al_pc = [t \in AThreads |-> "idle"]
    /\ al_rval = [t \in AThreads |-> NoDcb]
    /\ al_ptr = [t \in AThreads |-> NoDcb]
    /\ al_role = [t \in AThreads |-> "REQUEST_HANDLER"]
    /\ al_done = {}
    /\ al_req = [d \in DCBs |-> "REQUEST_HANDLER"]
    /\ al_linked = << >>

\* rval = malloc(sizeof(DCB)): the block holds whatever was there before
AllocMalloc(t, d, r) ==
    /\ UNCHANGED <<varsT, varsW, varsR, varsC, varsLA, varsK, varsU>>
    /\ al_pc[t] = "idle"
    /\ mem[d] = "none"
    /\ \A e \in DCBs : e < d => mem[e] /= "none"
    /\ mem' = [mem EXCEPT ![d] = "live"]
    /\ dcb_state' = [dcb_state EXCEPT ![d] = "UNDEFINED"]
    /\ dcb_role' = [dcb_role EXCEPT ![d] = "JUNK"]
    /\ bitmask' = [bitmask EXCEPT ![d] = Workers]
    /\ rg_next' = [rg_next EXCEPT ![d] = d]
    /\ dcb_memnext' = [dcb_memnext EXCEPT ![d] = d]
    /\ dcb_writeq' = [dcb_writeq EXCEPT ![d] = "JUNK"]
    /\ al_rval' = [al_rval EXCEPT ![t] = d]
    /\ al_role' = [al_role EXCEPT ![t] = r]
    /\ al_req' = [al_req EXCEPT ![d] = r]
    /\ al_pc' = [al_pc EXCEPT ![t] = "init"]
    /\ UNCHANGED <<dcbspin, rg_head, al_ptr, al_done, al_linked>>

\* the assignments to the fields of rval, up to rval->command = 0
AllocInit(t) ==
    LET d == al_rval[t]
    IN  /\ UNCHANGED <<varsT, varsW, varsR, varsC, varsLA, varsK, varsU>>
        /\ al_pc[t] = "init"
        /\ dcb_role' = [dcb_role EXCEPT ![d] = al_role[t]]
        /\ dcb_writeq' = [dcb_writeq EXCEPT ![d] = "NULL"]
        /\ dcb_state' = [dcb_state EXCEPT ![d] = "ALLOC"]
        /\ rg_next' = [rg_next EXCEPT ![d] = NoDcb]
        /\ bitmask' = [bitmask EXCEPT ![d] = {}]
        /\ dcb_memnext' = [dcb_memnext EXCEPT ![d] = NoDcb]
        /\ al_pc' = [al_pc EXCEPT ![t] = "lock"]
        /\ UNCHANGED <<mem, dcbspin, rg_head, al_rval, al_ptr, al_role, al_done, al_req,
                       al_linked>>

\* spinlock_acquire(&dcbspin)
AllocLock(t) ==
    /\ UNCHANGED <<varsT, varsW, varsR, varsC, varsL, varsK, varsU>>
    /\ al_pc[t] = "lock"
    /\ alloc_lock_free(dcbspin)
    /\ dcbspin' = t
    /\ al_pc' = [al_pc EXCEPT ![t] = "head"]
    /\ UNCHANGED <<rg_head, rg_next, dcb_memnext, dcb_writeq, al_rval, al_ptr, al_role,
                   al_done, al_req, al_linked>>

\* if (allDCBs == NULL) allDCBs = rval; else ptr = allDCBs
AllocHead(t) ==
    /\ UNCHANGED <<varsT, varsW, varsR, varsC, varsL, varsK, varsU>>
    /\ al_pc[t] = "head"
    /\ \/ /\ rg_head = NoDcb
          /\ rg_head' = al_rval[t]
          /\ al_linked' = Append(al_linked, al_rval[t])
          /\ al_pc' = [al_pc EXCEPT ![t] = "unlock"]
          /\ UNCHANGED al_ptr
       \/ /\ rg_head /= NoDcb
          /\ al_ptr' = [al_ptr EXCEPT ![t] = rg_head]
          /\ al_pc' = [al_pc EXCEPT ![t] = "walk"]
          /\ UNCHANGED <<rg_head, al_linked>>
    /\ UNCHANGED <<dcbspin, rg_next, dcb_memnext, dcb_writeq, al_rval, al_role, al_done,
                   al_req>>

\* while (ptr->next) ptr = ptr->next; ptr->next = rval
AllocWalk(t) ==
    /\ UNCHANGED <<varsT, varsW, varsR, varsC, varsL, varsK, varsU>>
    /\ al_pc[t] = "walk"
    /\ IF rg_next[al_ptr[t]] /= NoDcb
       THEN /\ al_ptr' = [al_ptr EXCEPT ![t] = rg_next[al_ptr[t]]]
            /\ UNCHANGED <<rg_next, al_linked, al_pc>>
       ELSE /\ rg_next' = [rg_next EXCEPT ![al_ptr[t]] = al_rval[t]]
            /\ al_linked' = Append(al_linked, al_rval[t])
            /\ al_pc' = [al_pc EXCEPT ![t] = "unlock"]
            /\ UNCHANGED al_ptr
    /\ UNCHANGED <<dcbspin, rg_head, dcb_memnext, dcb_writeq, al_rval, al_role, al_done,
                   al_req>>

\* spinlock_release(&dcbspin); return rval
AllocUnlock(t) ==
    /\ UNCHANGED <<varsT, varsW, varsR, varsC, varsL, varsK, varsU>>
    /\ al_pc[t] = "unlock"
    /\ dcbspin' = NoAThread
    /\ al_done' = al_done \cup {al_rval[t]}
    /\ al_pc' = [al_pc EXCEPT ![t] = "idle"]
    /\ UNCHANGED <<rg_head, rg_next, dcb_memnext, dcb_writeq, al_rval, al_ptr, al_role,
                   al_req, al_linked>>

\* dcb_final_free(d) by a thread that is not in dcb_alloc: under dcbspin d is
\* taken off the chain (the head case, or the DCB pointing to d gets d's
\* next pointer), then d is freed
AllocPeerFree(t, d) ==
    /\ UNCHANGED <<varsT, varsW, varsR, varsC, varsLA, varsK, varsU>>
    /\ al_pc[t] = "idle"
    /\ d \in al_done
    /\ dcbspin = NoAThread
    /\ IF rg_head = d
       THEN /\ rg_head' = rg_next[d]
            /\ UNCHANGED rg_next
       ELSE /\ rg_next' = IF chain_pred(rg_head, rg_next, d) /= NoDcb
                          THEN [rg_next EXCEPT ![chain_pred(rg_head, rg_next, d)] = rg_next[d]]
                          ELSE rg_next
            /\ UNCHANGED rg_head
    /\ mem' = [mem EXCEPT ![d] = "freed"]
    /\ al_done' = al_done \ {d}
    /\ al_linked' = RemoveSeq(al_linked, d)
    /\ UNCHANGED <<dcb_state, dcb_role, bitmask>>
    /\ UNCHANGED <<dcbspin, dcb_memnext, dcb_writeq, al_pc, al_rval, al_ptr, al_role, al_req>>

NextA ==
    \/ \E t \in AThreads, d \in DCBs, r \in AllocRoles : AllocMalloc(t, d, r)
    \/ \E t \in AThreads : AllocInit(t)
    \/ \E t \in AThreads : AllocLock(t)
    \/ \E t \in AThreads : AllocHead(t)
    \/ \E t \in AThreads : AllocWalk(t)
    \/ \E t \in AThreads : AllocUnlock(t)
    \/ \E t \in AThreads, d \in DCBs : AllocPeerFree(t, d)

(***************************************************************************)
(* The locks.  Each function of dcb.c is taken as the sequence of          *)
(* spinlock_acquire and spinlock_release calls it makes, on every path     *)
(* through it; threads run the functions concurrently and a                *)
(* spinlock_acquire of a held lock waits.                                  *)
(***************************************************************************)
NumLThreads == 2

LThreads == 0 .. (NumLThreads - 1)
NoLThread == NumLThreads

zombiespin_lk == <<"zombiespin", 0>>
dcbspin_lk == <<"dcbspin", 0>>
ses_lock_lk == <<"ses_lock", 0>>
initlock_lk(d) == <<"dcb_initlock", d>>
writeqlock_lk(d) == <<"writeqlock", d>>

Locks == {zombiespin_lk, dcbspin_lk, ses_lock_lk}
            \cup {initlock_lk(d) : d \in DCBs} \cup {writeqlock_lk(d) : d \in DCBs}

Acq(l) == [op |-> "acq", lock |-> l]
Rel(l) == [op |-> "rel", lock |-> l]

\* dcb_set_state: dcb_set_state_nomutex between acquire and release of the init lock
set_state_locks(d) == <<Acq(initlock_lk(d)), Rel(initlock_lk(d))>>

\* dcb_add_to_zombieslist: under zombiespin, return at once when the DCB is
\* ZOMBIE already, otherwise link it and call dcb_set_state
zombieslist_locks(d, already) ==
    IF already THEN <<Acq(zombiespin_lk), Rel(zombiespin_lk)>>
    ELSE <<Acq(zombiespin_lk)>> \o set_state_locks(d) \o <<Rel(zombiespin_lk)>>

\* dcb_close: the init lock is released before dcb_add_to_zombieslist is called
mut_close_locks_nested(d, nopolling, already) ==
    <<Acq(initlock_lk(d)), Acq(zombiespin_lk), Rel(zombiespin_lk), Rel(initlock_lk(d))>>

close_locks(d, nopolling, already) ==
    <<Acq(initlock_lk(d)), Rel(initlock_lk(d))>>
        \o (IF nopolling THEN zombieslist_locks(d, already) ELSE << >>)

\* what dcb_final_free(d) does besides locking: it is entered, takes d off
\* the chain of all DCBs, and returns after free(dcb)
FinalFreeOps == {"enter", "unlink", "leave"}
FinalFreeOp(k, d) == [op |-> k, lock |-> <<"dcb_final_free", d>>]

\* dcb_final_free: the unlink under dcbspin, the swap of the router session
\* under ses_lock when the session has one
final_free_locks(d, rs) ==
    <<FinalFreeOp("enter", d), Acq(dcbspin_lk), FinalFreeOp("unlink", d), Rel(dcbspin_lk)>>
        \o (IF rs THEN <<Acq(ses_lock_lk), Rel(ses_lock_lk)>> ELSE << >>)
        \o <<FinalFreeOp("leave", d)>>

\* dcb_process_zombies: nothing when zombies is NULL; the walk under zombiespin;
\* then for each victim dcb_set_state and dcb_final_free
RECURSIVE victims_locks(_, _)
victims_locks(vs, rs) ==
    IF vs = << >> THEN << >>
    ELSE set_state_locks(Head(vs)) \o final_free_locks(Head(vs), rs)
            \o victims_locks(Tail(vs), rs)

mut_process_zombies_locks_held(empty, vs, rs) ==
    IF empty THEN << >>
    ELSE <<Acq(zombiespin_lk)>> \o victims_locks(vs, rs) \o <<Rel(zombiespin_lk)>>

process_zombies_locks(empty, vs, rs) ==
    IF empty THEN << >>
    ELSE <<Acq(zombiespin_lk), Rel(zombiespin_lk)>> \o victims_locks(vs, rs)

\* dcb_write and dcb_drain_writeq: the whole body under the writeq lock
write_locks(d) == <<Acq(writeqlock_lk(d)), Rel(writeqlock_lk(d))>>

\* dcb_alloc: the link under dcbspin
alloc_locks == <<Acq(dcbspin_lk), Rel(dcbspin_lk)>>

\* dcb_connect: dcb_alloc; on a failure dcb_final_free, after dcb_set_state
\* when it was the protocol's connect that failed.  Only then is the DCB
\* linked to the session.
connect_locks(d, why, rs) ==
    alloc_locks
        \o (IF why = "PROTO" THEN set_state_locks(d) ELSE << >>)
        \o (IF why = "NONE" THEN << >> ELSE final_free_locks(d, rs /\ why = "PROTO"))

\* printAllDCBs walks the chain under dcbspin; dprintAllDCBs(pdcb) does so and
\* prints every DCB with dcb_printf(pdcb, ...), which is a write to pdcb
RECURSIVE printf_locks(_, _)
printf_locks(p, n) == IF n = 0 THEN << >> ELSE write_locks(p) \o printf_locks(p, n - 1)

enumerate_locks(p, n) == <<Acq(dcbspin_lk)>> \o printf_locks(p, n) \o <<Rel(dcbspin_lk)>>

\* the sequences of distinct DCBs
VictimLists == {q \in UNION {[1 .. n -> DCBs] : n \in 0 .. MaxDCB} :
                   \A i, j \in 1 .. Len(q) : i /= j => q[i] /= q[j]}

Calls ==
    {[f |-> "dcb_close", p |-> close_locks(d, np, al)] :
        d \in DCBs, np \in BOOLEAN, al \in BOOLEAN}
    \cup {[f |-> "dcb_process_zombies", p |-> process_zombies_locks(e, vs, rs)] :
        e \in BOOLEAN, vs \in VictimLists, rs \in BOOLEAN}
    \cup {[f |-> "dcb_write", p |-> write_locks(d)] : d \in DCBs}
    \cup {[f |-> "dcb_drain_writeq", p |-> write_locks(d)] : d \in DCBs}
    \cup {[f |-> "dcb_alloc", p |-> alloc_locks]}
    \cup {[f |-> "dcb_connect", p |-> connect_locks(d, why, rs)] :
        d \in DCBs, why \in ConnectFailures \cup {"NONE"}, rs \in BOOLEAN}
    \cup {[f |-> "dprintAllDCBs", p |-> enumerate_locks(d, n)] :
        d \in DCBs, n \in 0 .. MaxDCB}

IdleK ==
    /\ lk_holder = [l \in Locks |-> NoLThread]
    /\ lk_prog = [t \in LThreads |-> << >>]
    /\ lk_call = [t \in LThreads |-> "none"]
    /\ lk_ff = [t \in LThreads |-> NoDcb]
    /\ lk_reg = [i \in 1 .. MaxDCB |-> i]

\* thread t calls a function
LkCall(t, c) ==
    /\ UNCHANGED <<varsT, varsW, varsR, varsC, varsL, varsA, varsU>>
    /\ lk_call[t] = "none"
    /\ c.p /= << >>
    /\ lk_call' = [lk_call EXCEPT ![t] = c.f]
    /\ lk_prog' = [lk_prog EXCEPT ![t] = c.p]
    /\ UNCHANGED <<lk_holder, lk_ff, lk_reg>>

\* spinlock_acquire(l) returns: nobody held l
LkAcquire(t) ==
    /\ UNCHANGED <<varsT, varsW, varsR, varsC, varsL, varsA, varsU>>
    /\ lk_prog[t] /= << >>
    /\ Head(lk_prog[t]).op = "acq"
    /\ lk_holder[Head(lk_prog[t]).lock] = NoLThread
    /\ lk_holder' = [lk_holder EXCEPT ![Head(lk_prog[t]).lock] = t]
    /\ lk_prog' = [lk_prog EXCEPT ![t] = Tail(@)]
    /\ UNCHANGED <<lk_call, lk_ff, lk_reg>>

\* spinlock_release(l); after the last one the function returns
LkRelease(t) ==
    /\ UNCHANGED <<varsT, varsW, varsR, varsC, varsL, varsA, varsU>>
    /\ lk_prog[t] /= << >>
    /\ Head(lk_prog[t]).op = "rel"
    /\ lk_holder' = [lk_holder EXCEPT ![Head(lk_prog[t]).lock] = NoLThread]
    /\ lk_prog' = [lk_prog EXCEPT ![t] = Tail(@)]
    /\ lk_call' = [lk_call EXCEPT ![t] = IF Tail(lk_prog[t]) = << >> THEN "none" ELSE @]
    /\ UNCHANGED <<lk_ff, lk_reg>>

\* a step of dcb_final_free(d) that is not a lock operation
LkFinalFree(t) ==
    /\ UNCHANGED <<varsT, varsW, varsR, varsC, varsL, varsA, varsU>>
    /\ lk_prog[t] /= << >>
    /\ Head(lk_prog[t]).op \in FinalFreeOps
    /\ LET k == Head(lk_prog[t]).op
           d == Head(lk_prog[t]).lock[2]
       IN  /\ lk_ff' = [lk_ff EXCEPT ![t] = IF k = "leave" THEN NoDcb ELSE d]
           /\ lk_reg' = IF k = "unlink" THEN registry_unlink(lk_reg, d) ELSE lk_reg
    /\ lk_prog' = [lk_prog EXCEPT ![t] = Tail(@)]
    /\ lk_call' = [lk_call EXCEPT ![t] = IF Tail(lk_prog[t]) = << >> THEN "none" ELSE @]
    /\ UNCHANGED lk_holder

NextK ==
    \/ \E t \in LThreads, c \in Calls : LkCall(t, c)
    \/ \E t \in LThreads : LkAcquire(t)
    \/ \E t \in LThreads : LkRelease(t)
    \/ \E t \in LThreads : LkFinalFree(t)

(***************************************************************************)
(* printAllDCBs and dprintAllDCBs: one more thread walks the chain of all  *)
(* DCBs from allDCBs over dcb->next and prints every DCB it comes to,      *)
(* while the other threads allocate and free DCBs.                         *)
(***************************************************************************)
Enumerator == NumAllocThreads + 1

\* spinlock_acquire(&dcbspin) gets the lock when no thread holds it
mut_enum_lock_ignored(holder) == TRUE

enum_lock_free(holder) == holder = NoAThread

IdleV ==
    /\ en_pc = "idle"
    /\ en_dcb = NoDcb
    /\ en_seen = << >>
    /\ en_snap = << >>
    /\ en_freed = {}

\* spinlock_acquire(&dcbspin); dcb = allDCBs
EnumLock ==
    /\ UNCHANGED <<varsT, varsW, varsR, varsC, varsL, varsK, varsQ>>
    /\ en_pc = "idle"
    /\ enum_lock_free(dcbspin)
    /\ dcbspin' = Enumerator
    /\ en_dcb' = rg_head
    /\ en_seen' = << >>
    /\ en_snap' = Chain
    /\ en_pc' = "walk"
    /\ UNCHANGED <<rg_head, rg_next, dcb_memnext, dcb_writeq, al_pc, al_rval, al_ptr,
                   al_role, al_done, al_req, al_linked, en_freed>>

\* while (dcb) { printDCB(dcb) or the dcb_printf calls; dcb = dcb->next; }
EnumVisit ==
    /\ UNCHANGED <<varsT, varsW, varsR, varsC, varsL, varsK, varsA, varsQ>>
    /\ en_pc = "walk"
    /\ en_dcb /= NoDcb
    /\ en_seen' = Append(en_seen, en_dcb)
    /\ en_freed' = IF mem[en_dcb] = "freed" THEN en_freed \cup {en_dcb} ELSE en_freed
    /\ en_dcb' = rg_next[en_dcb]
    /\ UNCHANGED <<en_pc, en_snap>>

\* the loop ends with dcb == NULL; spinlock_release(&dcbspin)
EnumUnlock ==
    /\ UNCHANGED <<varsT, varsW, varsR, varsC, varsL, varsK, varsQ>>
    /\ en_pc = "walk"
    /\ en_dcb = NoDcb
    /\ dcbspin' = NoAThread
    /\ en_pc' = "idle"
    /\ UNCHANGED <<rg_head, rg_next, dcb_memnext, dcb_writeq, al_pc, al_rval, al_ptr,
                   al_role, al_done, al_req, al_linked>>
    /\ UNCHANGED <<en_dcb, en_seen, en_snap, en_freed>>

NextV ==
    \/ \E t \in AThreads, d \in DCBs, r \in AllocRoles : AllocMalloc(t, d, r)
    \/ \E t \in AThreads : AllocInit(t)
    \/ \E t \in AThreads : AllocLock(t)
    \/ \E t \in AThreads : AllocHead(t)
    \/ \E t \in AThreads : AllocWalk(t)
    \/ \E t \in AThreads : AllocUnlock(t)
    \/ \E t \in AThreads, d \in DCBs : AllocPeerFree(t, d)
    \/ EnumLock
    \/ EnumVisit
    \/ EnumUnlock

(***************************************************************************)
(* The query log filter: updateStats on one LOG_STATS_DATA object.         *)
(* routeQuery computes currWID from the clock and calls updateStats; the   *)
(* threads of the sessions that share the object run it concurrently.      *)
(* Each atomic_add is one step; the argument of atomic_add(&x, f(x)) is    *)
(* read from x in a step before it.                                        *)
(***************************************************************************)
NumQThreads == 2
MaxWindow == 2
MaxQueries == 3

QThreads == 0 .. (NumQThreads - 1)

\* the threads inside the block of updateStats that closes a window
RolloverPcs == {"write", "reset_wid", "reset_wid_add", "reset_num", "reset_num_add",
                "revoke", "revoke_add"}

\* the other actions leave these alone
varsNQ == <<varsT, varsL, varsW, varsR, varsC, varsA, varsK, varsV>>

\* claim(): !atomic_add(&numClaims, 1), true for the thread that finds 0
claim(numClaims) == [numClaims |-> numClaims + 1, ret |-> numClaims = 0]

\* revoke(): atomic_add(&numClaims, -numClaims), with arg the value read
\* from numClaims for the argument
revoke(numClaims, arg) == numClaims - arg

\* reset(newWID): atomic_add(&wid, newWID - wid), with arg the value read
\* from wid for the argument
reset_wid(wid, newWID, arg) == wid + (newWID - arg)

IdleQ ==
    /\ st_wid = 0
    /\ st_numClaims = 0
    /\ st_numSelect = 0
    /\ st_now = 0
    /\ st_calls = 0
    /\ qs_pc = [t \in QThreads |-> "idle"]
    /\ qs_currWID = [t \in QThreads |-> 0]
    /\ qs_arg = [t \in QThreads |-> 0]
    /\ st_log = << >>
    /\ st_lastRet = TRUE

\* the clock moves into the next window
StatsTick ==
    /\ UNCHANGED varsNQ
    /\ st_now < MaxWindow
    /\ st_now' = st_now + 1
    /\ UNCHANGED <<st_wid, st_numClaims, st_numSelect, st_calls, qs_pc, qs_currWID, qs_arg,
                   st_log, st_lastRet>>

\* routeQuery: currWID = now / stats_window; updateStats(..., currWID, ...)
StatsCall(t) ==
    /\ UNCHANGED varsNQ
    /\ qs_pc[t] = "idle"
    /\ st_calls < MaxQueries
    /\ st_calls' = st_calls + 1
    /\ qs_currWID' = [qs_currWID EXCEPT ![t] = st_now]
    /\ qs_pc' = [qs_pc EXCEPT ![t] = "check"]
    /\ UNCHANGED <<st_wid, st_numClaims, st_numSelect, st_now, qs_arg, st_log, st_lastRet>>

\* if (stats->wid < currWID && ...
StatsCheck(t) ==
    /\ UNCHANGED varsNQ
    /\ qs_pc[t] = "check"
    /\ qs_pc' = [qs_pc EXCEPT ![t] = IF st_wid < qs_currWID[t] THEN "claim" ELSE "process"]
    /\ UNCHANGED <<st_wid, st_numClaims, st_numSelect, st_now, st_calls, qs_currWID, qs_arg,
                   st_log, st_lastRet>>

\* ... && stats->claim())
StatsClaim(t) ==
    /\ UNCHANGED varsNQ
    /\ qs_pc[t] = "claim"
    /\ st_numClaims' = claim(st_numClaims).numClaims
    /\ qs_pc' = [qs_pc EXCEPT ![t] = IF claim(st_numClaims).ret THEN "write" ELSE "process"]
    /\ st_lastRet' = IF \A u \in QThreads : qs_pc[u] \notin RolloverPcs
                     THEN claim(st_numClaims).ret ELSE st_lastRet
    /\ UNCHANGED <<st_wid, st_numSelect, st_now, st_calls, qs_currWID, qs_arg, st_log>>

\* write_stats_log_entry(instance, session, stats): one line with the window
\* stats->wid and the counters
StatsWrite(t) ==
    /\ UNCHANGED varsNQ
    /\ qs_pc[t] = "write"
    /\ st_log' = Append(st_log, [wid |-> st_wid, n |-> st_numSelect,
                                 at |-> qs_currWID[t], by |-> t])
    /\ qs_pc' = [qs_pc EXCEPT ![t] = "reset_wid"]
    /\ UNCHANGED <<st_wid, st_numClaims, st_numSelect, st_now, st_calls, qs_currWID, qs_arg,
                   st_lastRet>>

\* the argument of an atomic_add is read: newWID - wid, -numSelect, -numClaims
StatsRead(t) ==
    /\ UNCHANGED varsNQ
    /\ qs_pc[t] \in {"reset_wid", "reset_num", "revoke"}
    /\ qs_arg' = [qs_arg EXCEPT ![t] = CASE qs_pc[t] = "reset_wid" -> st_wid
                                         [] qs_pc[t] = "reset_num" -> st_numSelect
                                         [] qs_pc[t] = "revoke" -> st_numClaims]
    /\ qs_pc' = [qs_pc EXCEPT ![t] = CASE qs_pc[t] = "reset_wid" -> "reset_wid_add"
                                       [] qs_pc[t] = "reset_num" -> "reset_num_add"
                                       [] qs_pc[t] = "revoke" -> "revoke_add"]
    /\ UNCHANGED <<st_wid, st_numClaims, st_numSelect, st_now, st_calls, qs_currWID,
                   st_log, st_lastRet>>

\* stats->reset(currWID): atomic_add(&wid, newWID - wid); atomic_add(&numSelect, -numSelect)
StatsReset(t) ==
    /\ UNCHANGED varsNQ
    /\ qs_pc[t] \in {"reset_wid_add", "reset_num_add"}
    /\ st_wid' = IF qs_pc[t] = "reset_wid_add"
                 THEN reset_wid(st_wid, qs_currWID[t], qs_arg[t]) ELSE st_wid
    /\ st_numSelect' = IF qs_pc[t] = "reset_num_add"
                       THEN st_numSelect - qs_arg[t] ELSE st_numSelect
    /\ qs_pc' = [qs_pc EXCEPT ![t] = IF qs_pc[t] = "reset_wid_add" THEN "reset_num"
                                                                   ELSE "revoke"]
    /\ UNCHANGED <<st_numClaims, st_now, st_calls, qs_currWID, qs_arg, st_log, st_lastRet>>

\* stats->revoke(): atomic_add(&numClaims, -numClaims)
StatsRevoke(t) ==
    /\ UNCHANGED varsNQ
    /\ qs_pc[t] = "revoke_add"
    /\ st_numClaims' = revoke(st_numClaims, qs_arg[t])
    /\ qs_pc' = [qs_pc EXCEPT ![t] = "process"]
    /\ UNCHANGED <<st_wid, st_numSelect, st_now, st_calls, qs_currWID, qs_arg, st_log,
                   st_lastRet>>

\* stats->processQuery(query, queryLen): the counter of the statement's kind
\* is incremented; updateStats returns
StatsProcess(t) ==
    /\ UNCHANGED varsNQ
    /\ qs_pc[t] = "process"
    /\ st_numSelect' = st_numSelect + 1
    /\ qs_pc' = [qs_pc EXCEPT ![t] = "idle"]
    /\ UNCHANGED <<st_wid, st_numClaims, st_now, st_calls, qs_currWID, qs_arg, st_log,
                   st_lastRet>>

NextQ ==
    \/ StatsTick
    \/ \E t \in QThreads : StatsCall(t)
    \/ \E t \in QThreads : StatsCheck(t)
    \/ \E t \in QThreads : StatsClaim(t)
    \/ \E t \in QThreads : StatsWrite(t)
    \/ \E t \in QThreads : StatsRead(t)
    \/ \E t \in QThreads : StatsReset(t)
    \/ \E t \in QThreads : StatsRevoke(t)
    \/ \E t \in QThreads : StatsProcess(t)

(***************************************************************************)
(* The specifications.                                                     *)
(***************************************************************************)
IdleU == IdleV /\ IdleQ

IdleE == IdleA /\ IdleK /\ IdleU

IdleN == IdleR /\ IdleC /\ IdleE

Init == IdleT /\ InitL /\ IdleW /\ IdleN
Spec == Init /\ [][Next]_vars

InitState == InitT /\ InitL /\ IdleW /\ IdleN
SpecState == InitState /\ [][NextT]_vars

InitWrite == IdleT /\ InitL /\ IdleW /\ IdleN
SpecWrite == InitWrite /\ [][NextW]_vars

InitRead == IdleT /\ InitL /\ IdleW /\ IdleN
SpecRead == InitRead /\ [][NextR]_vars

InitConnect == IdleT /\ InitL /\ IdleW /\ IdleR /\ InitC /\ IdleE
SpecConnect == InitConnect /\ [][NextC]_vars

InitAlloc == IdleT /\ InitL /\ IdleW /\ IdleR /\ IdleC /\ IdleA /\ IdleK /\ IdleU
SpecAlloc == InitAlloc /\ [][NextA]_vars

InitLocks == IdleT /\ InitL /\ IdleW /\ IdleR /\ IdleC /\ IdleA /\ IdleK /\ IdleU
SpecLocks == InitLocks /\ [][NextK]_vars

InitFull == IdleT /\ InitL /\ IdleW /\ IdleN
SpecFull == InitFull /\ [][NextF]_vars

InitListen == IdleT /\ InitListener /\ IdleW /\ IdleN
SpecListen == InitListen /\ [][Next]_vars

InitEnum == IdleT /\ InitL /\ IdleW /\ IdleN
SpecEnum == InitEnum /\ [][NextV]_vars

InitStats == IdleT /\ InitL /\ IdleW /\ IdleN
SpecStats == InitStats /\ [][NextQ]_vars

(***************************************************************************)
(* Properties of the state machine, checked under SpecState.               *)
(***************************************************************************)
\* A step of SpecState is one call dcb_set_state_nomutex(dcb, ts_new', &ts_old')
\* made with dcb->state = ts_state.
StateCallStep == ts_calls' = ts_calls + 1

\* C7: for every state-changing pair (from, to) of the transition table the call
\* returns true, leaves dcb->state = to and reports from as the previous state.
C7_TablePairsChangeState ==
    [][(StateCallStep /\ <<ts_state, ts_new'>> \in ChangingPairs)
          => (ts_ret' = TRUE /\ ts_state' = ts_new' /\ ts_old' = ts_state)]_vars

C7_Witness ==
    /\ ts_calls > 0
    /\ ts_old = "POLLING" /\ ts_new = "NOPOLLING"
    /\ ts_state = "NOPOLLING" /\ ts_ret = TRUE

\* C8: for every pair (from, to) outside the transition table the call returns
\* false and leaves dcb->state unchanged.
C8_OtherPairsFail ==
    [][(StateCallStep /\ <<ts_state, ts_new'>> \notin TablePairs)
          => (ts_ret' = FALSE /\ ts_state' = ts_state)]_vars

\* C9: asking for POLLING in state NOPOLLING or ZOMBIE returns true and leaves
\* the state as it was.
C9_PollingRequestIsNoOp ==
    [][(StateCallStep /\ ts_state \in {"NOPOLLING", "ZOMBIE"} /\ ts_new' = "POLLING")
          => (ts_ret' = TRUE /\ ts_state' = ts_state /\ ts_old' = ts_state)]_vars

C9_Witness ==
    /\ ts_calls > 0
    /\ ts_old = "ZOMBIE" /\ ts_new = "POLLING"
    /\ ts_state = "ZOMBIE" /\ ts_ret = TRUE

(***************************************************************************)
(* Properties of the write queue, checked under SpecWrite.                 *)
(***************************************************************************)
\* the part of its chain that a dcb_write call inside the send loop has not sent yet
InFlight ==
    IF \E t \in WThreads : wpc[t] = "w2"
    THEN Flat(queue[CHOOSE t \in WThreads : wpc[t] = "w2"])
    ELSE << >>

\* C10: the bytes the descriptor has accepted, followed by the bytes still queued
\* (on dcb->writeq, or in the hands of the dcb_write call that is sending), are
\* exactly the bytes of the chains handed to dcb_write, in the order in which the
\* calls took writeqlock: nothing is reordered, duplicated or dropped.
C10_WriteOrder == wire \o Flat(writeq) \o InFlight = order

C10_Witness ==
    /\ Len(order) >= 3
    /\ wire = order
    /\ \E i \in 1 .. (Len(order) - 1) : order[i] > order[i + 1]
    /\ \E t \in WThreads : wret[t] >= 2

(***************************************************************************)
(* Properties of the DCB life cycle, checked under Spec.                   *)
(***************************************************************************)
\* The steps of dcb_close and dcb_process_zombies, read off the program counters.
SnapshotStep(t) == pc[t] = "c2" /\ pc'[t] = "c3"
WalkStep(t) == pc[t] = "pz" /\ pc'[t] = "pz2"
FreeStep(t) == pc[t] = "pz4" /\ pc'[t] = "pz2"
DispatchStep(t) == pc[t] = "poll" /\ pc'[t] = "handler"

\* C1: no thread reads or writes a DCB whose memory dcb_final_free has released,
\* and no thread is inside an event handler (or the dcb_close it calls) of a
\* released DCB.
C1_NoUseAfterFree ==
    /\ uaf = {}
    /\ \A t \in Workers : pc[t] \in DispatchPcs => mem[cur[t]] /= "freed"

C3_ConcurrentCloseOnce ==
    \A t, s \in Workers :
        (/\ t /= s
         /\ pc[t] \in ClosePcs
         /\ pc[s] \in ClosePcs
         /\ cur[t] = cur[s]
         /\ nclose[t] = 1
         /\ nclose[s] = 1
         /\ cur[t] \notin closeRet)
        => (/\ nRemove[cur[t]] <= 1
            /\ nSnap[cur[t]] <= 1
            /\ nInsert[cur[t]] <= 1)

\* C4: a dcb_close that finds the DCB in NOPOLLING or ZOMBIE calls no
\* poll_remove_dcb, copies no bitmask and leaves the poll set and the bitmask as
\* they are; no DCB is linked into the zombie list twice or freed twice.
C4_SecondCloseNoOp ==
    [][/\ \A t \in Workers :
            (SnapshotStep(t) /\ prev_state[t] \in {"NOPOLLING", "ZOMBIE"})
              => (/\ nRemove' = nRemove
                  /\ nSnap' = nSnap
                  /\ pollset' = pollset
                  /\ bitmask' = bitmask)
       /\ \A d \in DCBs : nInsert'[d] <= 1 /\ nFree'[d] <= 1]_vars

\* C5: a DCB for which a dcb_close call has returned is not in the poll set and
\* no poll call hands out an event for it; outside the dcb_initlock critical
\* section a DCB is in the poll set exactly while its state is POLLING.
C5_CloseLinearisable ==
    [][/\ \A d \in closeRet' : d \notin pollset'
       /\ \A t \in Workers : DispatchStep(t) => cur'[t] \notin closeRet
       /\ \A d \in DCBs :
             (initlock'[d] = NoThread /\ mem'[d] = "live")
               => ((d \in pollset') <=> (dcb_state'[d] = "POLLING"))]_vars

\* Two threads were dispatched on the DCB; the dcb_close of one has returned
\* while the other, which lost the race, is still inside its own dcb_close.
C5_Witness ==
    \E t, s \in Workers :
        /\ t /= s
        /\ pc[t] = "handler"
        /\ pc[s] \in ClosePcs
        /\ cur[t] = cur[s]
        /\ cur[t] \in closeRet
        /\ cur[t] \notin pollset
        /\ nRemove[cur[t]] = 1

\* C6: a closed DCB for which every live thread has called dcb_process_zombies
\* since its dcb_close returned, with no such call still running, has been
\* freed and is neither in allDCBs nor on the zombie list.
C6_DrainComplete ==
    \A d \in closeRet :
        (/\ \A w \in pollmask : w \in passed[d] \/ mem[d] = "freed"
         /\ \A w \in Workers : pc[w] \notin (ReapPcs \cup ClosePcs))
        => (/\ mem[d] = "freed"
            /\ ~ InSeq(d, allDCBs)
            /\ ~ InSeq(d, zombies))

(***************************************************************************)
(* Properties of dcb_write and dcb_drain_writeq, checked under SpecWrite.  *)
(***************************************************************************)
\* The steps of a dcb_write call by thread t: taking writeqlock, and the return.
\* At the return the call has appended iff dcb->writeq is not its own chain.
WriteLockStep(t) == wpc[t] = "w1" /\ wpc'[t] /= "w1"
WriteReturnStep(t) == wpc[t] = "w3" /\ wpc'[t] = "idle"
Appended(t) == writeq /= queue[t]

\* C11: a dcb_write that finds dcb->writeq non-empty sends nothing, appends its
\* chain to the tail of dcb->writeq and returns 1.
C11_QueuedWriteSucceeds ==
    [][\A t \in WThreads :
          /\ (WriteLockStep(t) /\ writeq /= << >>)
                => (/\ wire' = wire
                    /\ writeq' = writeq \o queue[t]
                    /\ wpc'[t] = "w3")
          /\ (WriteReturnStep(t) /\ Appended(t))
                => (wret'[t] = 1 /\ wire' = wire /\ writeq' = writeq)]_vars

\* C12: a dcb_write that found dcb->writeq empty and whose last write() failed
\* with EAGAIN returns 1; the bytes accepted before are on the wire and
\* dcb->writeq is exactly the unsent rest of the chain.
C12_PartialWriteQueuesRest ==
    [][\A t \in WThreads :
          (WriteReturnStep(t) /\ ~ Appended(t) /\ queue[t] /= << >>
              /\ saved_errno[t] = "EAGAIN")
            => (/\ wret'[t] = 1
                /\ writeq' = queue[t]
                /\ wire' \o Flat(writeq') = order)]_vars

\* A call has returned 1 after a short write: part of its chain is on the
\* wire, the rest is the write queue.
C12_Witness ==
    \E t \in WThreads :
        /\ wpc[t] = "idle"
        /\ saved_errno[t] = "EAGAIN"
        /\ wret[t] = 1
        /\ wire /= << >>
        /\ writeq /= << >>
        /\ Len(Head(writeq)) < MaxBufLen
        /\ wire \o Flat(writeq) = order

\* C13: dcb_write returns 0 exactly when a write() of the call failed with an
\* errno other than EAGAIN/EWOULDBLOCK, and then the unsent rest of the chain
\* is dcb->writeq.
C13_WriteFailsOnlyOnError ==
    [][\A t \in WThreads :
          WriteReturnStep(t)
            => /\ (wret'[t] = 0)
                     <=> (~ Appended(t) /\ saved_errno[t] \notin {"NONE", "EAGAIN"})
               /\ (wret'[t] = 0) => (writeq' = queue[t] /\ queue[t] /= << >>)]_vars

\* The steps of a dcb_drain_writeq call by thread t: one write() that sent
\* bytes, and the return.
DrainSendStep(t) == wpc[t] = "d2" /\ wpc'[t] = "d2" /\ wire' /= wire
DrainReturnStep(t) == wpc[t] = "d2" /\ wpc'[t] = "idle"

\* C14 (as claimed): dcb_drain_writeq makes no further write() once a write()
\* of the call was short.
C14_DrainStopsOnShortWrite ==
    [][\A t \in WThreads : (wpc[t] = "d2" /\ dshort[t]) => ~ DrainSendStep(t)]_vars

\* C14 (amended): every write() of dcb_drain_writeq sends a prefix of the write
\* queue and leaves the rest as the write queue, a short write() included,
\* after which the loop goes on; the call returns the number of bytes it put
\* on the wire, 0 when it sent nothing, and leaves the unsent rest queued.
C14_DrainSendsFromHead ==
    [][\A t \in WThreads :
          /\ DrainSendStep(t)
                => (/\ wire' \o Flat(writeq') = wire \o Flat(writeq)
                    /\ Len(wire') > Len(wire)
                    /\ Len(wire') - Len(wire) <= GWBUF_LENGTH(writeq))
          /\ DrainReturnStep(t)
                => (/\ wret'[t] = Len(wire) - wire0[t]
                    /\ writeq' = writeq
                    /\ wire' = wire
                    /\ wire \o Flat(writeq) = order)]_vars

\* A drain call made a short write(), went on, emptied the queue and returned
\* the two bytes it sent.
C14_Witness ==
    \E t \in WThreads :
        /\ wpc[t] = "idle"
        /\ dshort[t]
        /\ writeq = << >>
        /\ wret[t] = 2
        /\ Len(wire) >= 2

(***************************************************************************)
(* Properties of dcb_read, checked under SpecRead.                         *)
(***************************************************************************)
\* The return of a dcb_read call (the call that fails in its first ioctl
\* returns in the step that makes it), and the append of one buffer.
ReadReturnStep ==
    \/ rd_pc /= "idle" /\ rd_pc' = "idle"
    \/ rd_pc = "idle" /\ rd_pc' = "idle" /\ rd_calls' /= rd_calls
ReadAppendStep == rd_pc = "loop" /\ rd_pc' = "reioctl"

\* the bytes read() stored in the buffers a call appended
RECURSIVE AppBytes(_)
AppBytes(app) == IF app = << >> THEN 0 ELSE Head(app)[2] + AppBytes(Tail(app))

\* the buffer sizes B readable bytes are cut into
RECURSIVE Chunks(_)
Chunks(B) ==
    IF B <= 0 THEN << >>
    ELSE IF B <= MAX_BUFFER_SIZE THEN <<B>>
    ELSE <<MAX_BUFFER_SIZE>> \o Chunks(B - MAX_BUFFER_SIZE)

\* C15: a dcb_read call that ends without error, on a connection the peer has
\* not closed and that no other thread reads, returns the number of bytes it
\* appended to *head.
C15_ReadReturnsTotal ==
    [][(ReadReturnStep /\ rd_why' = "DONE" /\ ~ rd_closed' /\ rd_quiet')
          => rd_ret' = AppBytes(rd_app')]_vars

\* C16: dcb_read returns -1 only when an ioctl, a read (errno other than
\* EAGAIN/EWOULDBLOCK) or the buffer allocation failed, and always when an
\* ioctl or such a read failed; when read() fails with EAGAIN it returns the
\* bytes read so far or 0, never a negative value.
C16_ReadMinusOneOnError ==
    [][ReadReturnStep
          => /\ (rd_ret' = -1) => rd_why' \in {"IOCTL", "ECONNRESET", "ALLOC"}
             /\ rd_why' \in {"IOCTL", "ECONNRESET"} => rd_ret' = -1
             /\ rd_why' = "EAGAIN" => rd_ret' \in {0, AppBytes(rd_app')}]_vars

\* C17 (as claimed): dcb_read returns 0 only when the peer has closed, and
\* returns 0 when read() reports the peer's close.
C17_ReadZeroIffClosed ==
    [][ReadReturnStep
          => /\ (rd_ret' = 0) => rd_closed'
             /\ rd_why' = "EOF" => rd_ret' = 0]_vars

\* C17 (amended): dcb_read returns 0 exactly when its first FIONREAD query
\* reported no readable byte, whether or not the peer has closed, or a read()
\* returned 0.
C17_ReadZeroIffNothingRead ==
    [][ReadReturnStep
          => ((rd_ret' = 0)
                <=> (rd_why' = "EOF" \/ (rd_why' = "DONE" /\ rd_b0' = 0)))]_vars

\* A call on an open connection with nothing to read has returned 0.
C17_Witness ==
    /\ rd_pc = "idle"
    /\ rd_calls > 0
    /\ rd_why = "DONE"
    /\ rd_b0 = 0
    /\ rd_ret = 0
    /\ ~ rd_closed

\* C18: each iteration appends to the tail of *head one buffer of
\* min(b, MAX_BUFFER_SIZE) bytes, filled by one read(), and queries the count
\* again; no buffer of *head exceeds MAX_BUFFER_SIZE; B bytes that arrived in
\* one shot are returned in buffers of MAX_BUFFER_SIZE, ..., MAX_BUFFER_SIZE
\* and the rest, in arrival order.
C18_ReadChunks ==
    [][/\ ReadAppendStep
            => /\ Len(rd_head') = Len(rd_head) + 1
               /\ SubSeq(rd_head', 1, Len(rd_head)) = rd_head
               /\ Len(rd_head'[Len(rd_head')]) =
                     (IF rd_b < MAX_BUFFER_SIZE THEN rd_b ELSE MAX_BUFFER_SIZE)
               /\ rd_kernel' = SubSeq(rd_kernel, rd_n' + 1, Len(rd_kernel))
       /\ \A i \in 1 .. Len(rd_head') : Len(rd_head'[i]) <= MAX_BUFFER_SIZE
       /\ (ReadReturnStep /\ rd_why' = "DONE" /\ rd_quiet' /\ rd_calls' = 1)
            => /\ [i \in 1 .. Len(rd_app') |-> rd_app'[i][1]] = Chunks(rd_b0')
               /\ Flat(rd_head') = [i \in 1 .. rd_b0' |-> i]]_vars

\* Five bytes arrived in one shot and were returned as buffers of 2, 2 and 1.
C18_Witness ==
    /\ rd_pc = "idle"
    /\ rd_why = "DONE"
    /\ rd_quiet
    /\ rd_calls = 1
    /\ rd_b0 = 2 * MAX_BUFFER_SIZE + 1
    /\ Len(rd_head) = 3
    /\ Len(rd_head[3]) = 1

(***************************************************************************)
(* dcb_final_free and the router session; the failure paths of dcb_connect *)
(***************************************************************************)
\* C19: closeSession is called at most once for the session, and exactly
\* once by the time the session is freed when it had a router session: the
\* pointer is swapped to NULL while the swapping thread holds ses_lock, at
\* most one thread ever holds a non-NULL swapped-out value, and closeSession
\* is called with that value only, so two DCBs sharing the session that are
\* freed concurrently never both call it.
C19_CloseSessionOnce ==
    /\ nCloseSession
         + Cardinality({t \in CThreads : cn_pc[t] = "ff5" /\ cn_rsession[t] /= "NULL"}) <= 1
    /\ \A t \in CThreads : (cn_pc[t] = "ff4") <=> (ss_lock = t)
    /\ (ss_router /= "NULL") => (nCloseSession = 0 /\ ss_had)
    /\ (ss_mem = "freed" /\ ss_had) => nCloseSession = 1
    /\ (~ ss_had) => nCloseSession = 0

\* C19 witness: one thread has called closeSession while another, which had
\* also seen the router session before taking the lock, swapped out NULL
C19_Witness ==
    /\ nCloseSession = 1
    /\ \E u \in CThreads : cn_pc[u] = "ff5" /\ cn_rsession[u] = "NULL"

ConnFailed(t) == cn_why[t] \in {"MODULE", "LINK", "PROTO"}

ConnStep ==
    /\ \A t \in CThreads :
         /\ ConnFailed(t)' =>
              \/ cn_pc'[t] \in FreePcs
              \/ cn_pc'[t] = "idle" /\ cn_ret'[t] = "NULL"
         /\ (ConnFailed(t)' /\ cn_pc'[t] \in FreePcs) =>
              dcb_state'[cn_dcb'[t]] = IF cn_why'[t] = "PROTO" THEN "DISCONNECTED"
                                                                  ELSE "ALLOC"
         /\ (cn_pc'[t] = "idle" /\ cn_ret'[t] = "NULL") =>
              /\ ConnFailed(t)'
              /\ mem'[cn_dcb'[t]] = "freed"
              /\ nFree'[cn_dcb'[t]] = 1
              /\ ~ InSeq(cn_dcb'[t], allDCBs')
              /\ cn_dcb'[t] \notin pollset'
    /\ (n_connections' /= n_connections \/ n_current' /= n_current) =>
         \E t \in CThreads : cn_pc[t] = "proto" /\ cn_ret'[t] = "DCB"

C21_AllocAppends ==
    /\ \A t \in AThreads :
         al_pc[t] = "lock" =>
           /\ dcb_state[al_rval[t]] = "ALLOC"
           /\ dcb_role[al_rval[t]] = al_role[t]
           /\ dcb_writeq[al_rval[t]] = "NULL"
           /\ bitmask[al_rval[t]] = {}
           /\ dcb_memnext[al_rval[t]] = NoDcb
           /\ rg_next[al_rval[t]] = NoDcb
    /\ \A d \in al_done :
         /\ dcb_state[d] = "ALLOC"
         /\ dcb_role[d] = al_req[d]
         /\ dcb_writeq[d] = "NULL"
         /\ bitmask[d] = {}
         /\ dcb_memnext[d] = NoDcb
    /\ dcbspin = NoAThread =>
         /\ Chain = al_linked
         /\ al_done \subseteq SeqSet(Chain)
         /\ Cardinality(SeqSet(Chain)) = Len(Chain)

\* C21 witness: two DCBs allocated by two threads that were in dcb_alloc at
\* the same time are both on the chain
C21_Witness ==
    /\ dcbspin = NoAThread
    /\ Len(Chain) = 2
    /\ al_done = {1, 2}
    /\ al_rval[0] /= al_rval[1]
    /\ al_linked = <<2, 1>>

(***************************************************************************)
(* The lists of the life cycle                                             *)
(***************************************************************************)
InRegistry(d) == InSeq(d, allDCBs)
OnZombies(d) == InSeq(d, zombies)
OnVictims(d) == \E t \in Workers : InSeq(d, victims[t])

\* dcb_final_free(d) has taken d off the chain of all DCBs and has not yet
\* called free(d)
InFinalFree(d) == \E t \in Workers : pc[t] = "pz4" /\ cur[t] = d

\* C22: every allocated DCB is in exactly one of three situations: on the
\* chain of all DCBs and not on the zombies list; on both; or on neither,
\* finally freed (dcb_final_free has unlinked it and frees it).  A DCB on the
\* zombies list is on the chain of all DCBs, and freed memory is on neither
\* list.
C22_ThreeSituations ==
    \A d \in DCBs :
        /\ mem[d] = "live" =>
             \/ InRegistry(d)
             \/ ~ InRegistry(d) /\ ~ OnZombies(d) /\ InFinalFree(d)
        /\ OnZombies(d) => InRegistry(d) /\ mem[d] = "live"
        /\ mem[d] = "freed" => ~ InRegistry(d) /\ ~ OnZombies(d)
        /\ InRegistry(d) => mem[d] = "live"

\* C22 witness: one DCB is on both lists, another has been freed
C22_Witness ==
    \E d, e \in DCBs :
        /\ InRegistry(d) /\ OnZombies(d)
        /\ mem[e] = "freed" /\ ~ InRegistry(e) /\ ~ OnZombies(e)

\* C23: a DCB whose state is ZOMBIE is on the zombies list.
C23_ZombieOnList ==
    \A d \in DCBs : (mem[d] = "live" /\ dcb_state[d] = "ZOMBIE") => OnZombies(d)

\* C23, amended: a DCB whose state is ZOMBIE has been linked into the zombies
\* list, and is on it unless a walk of dcb_process_zombies found its bitmask
\* all clear and took it off as a victim.
C23_ZombieOnListOrVictim ==
    \A d \in DCBs :
        (mem[d] = "live" /\ dcb_state[d] = "ZOMBIE") =>
            /\ nInsert[d] >= 1
            /\ OnZombies(d) \/ (bitmask[d] = {} /\ clearedBy[d] /= {})

\* C23 witness: a DCB in ZOMBIE is a victim of a dcb_process_zombies call,
\* off the zombies list
C23_Witness ==
    \E d \in DCBs :
        mem[d] = "live" /\ dcb_state[d] = "ZOMBIE" /\ ~ OnZombies(d) /\ OnVictims(d)

\* C24: a DCB whose state is DISCONNECTED has its descriptor closed and is
\* not on the zombies list.
C24_DisconnectedClosed ==
    \A d \in DCBs :
        (mem[d] = "live" /\ dcb_state[d] = "DISCONNECTED") =>
            ~ fd_open[d] /\ ~ OnZombies(d)

\* C24 witness: the reaper has closed the descriptor of a victim and moved it
\* to DISCONNECTED; dcb_final_free has not yet freed it
C24_Witness ==
    \E t \in Workers :
        /\ pc[t] = "pz3"
        /\ mem[cur[t]] = "live"
        /\ dcb_state[cur[t]] = "DISCONNECTED"
        /\ nRemove[cur[t]] >= 1

\* the step of dcb_close(d) that copies poll_bitmask() into d's bitmask after
\* its own call has moved d to NOPOLLING
SnapshotAtNopolling(d) ==
    \E t \in Workers :
        /\ pc[t] = "c2" /\ pc'[t] = "c3"
        /\ cur[t] = d
        /\ succp[t]
        /\ prev_state[t] \in {"POLLING", "LISTENING"}
        /\ dcb_state[d] = "NOPOLLING"
        /\ nSnap[d] = 0
        /\ bitmask'[d] = pollmask

\* C25: the bitmask of a DCB is assigned once in its life, by the dcb_close
\* call that moved it to NOPOLLING, to poll_bitmask() at that moment; every
\* other change of it only clears bits.
C25_MaskSetOnce ==
    [][\A d \in DCBs :
          /\ nSnap'[d] <= 1
          /\ nSnap'[d] /= nSnap[d] => SnapshotAtNopolling(d)
          /\ (nSnap'[d] = nSnap[d] /\ mem[d] = "live") => bitmask'[d] \subseteq bitmask[d]]_vars

(***************************************************************************)
(* The order of the locks                                                  *)
(***************************************************************************)
HeldBy(t) == {l \in Locks : lk_holder[l] = t}
Requests(t, l) ==
    lk_prog[t] /= << >> /\ Head(lk_prog[t]).op = "acq" /\ Head(lk_prog[t]).lock = l
WaitsFor(t, u) == \E l \in Locks : Requests(t, l) /\ lk_holder[l] = u
LockKind(l) == l[1]

\* C26: no thread requests zombiespin while it holds an init lock or a writeq
\* lock, nor an init lock while it holds a writeq lock, and in no state is
\* there a set of threads each of which waits for a lock held by a thread of
\* the set.
C26_LockOrder ==
    /\ \A t \in LThreads, l \in Locks :
         Requests(t, l) =>
           /\ LockKind(l) = "zombiespin" =>
                \A h \in HeldBy(t) : LockKind(h) \notin {"dcb_initlock", "writeqlock"}
           /\ LockKind(l) = "dcb_initlock" =>
                \A h \in HeldBy(t) : LockKind(h) /= "writeqlock"
    /\ \A S \in SUBSET LThreads :
         S /= {} => \E t \in S : ~ \E u \in S : WaitsFor(t, u)

\* C26 witness: a thread in dcb_add_to_zombieslist holds zombiespin and waits
\* for the init lock of a DCB that another thread holds in dcb_close, while
\* that thread is about to release it
C26_Witness ==
    \E t, u \in LThreads, d \in DCBs :
        /\ t /= u
        /\ zombiespin_lk \in HeldBy(t)
        /\ Requests(t, initlock_lk(d))
        /\ lk_holder[initlock_lk(d)] = u
        /\ lk_call[u] = "dcb_close"

(***************************************************************************)
(* The ways to the final free                                              *)
(***************************************************************************)
FreedStep(d) == mem[d] = "live" /\ mem'[d] = "freed"
ByReaper(d) == \E t \in Workers : pc[t] = "pz4" /\ cur[t] = d
StateStep(d, from, to) == dcb_state[d] /= to /\ dcb_state'[d] = to => dcb_state[d] \in from

CloseFailed(t) == pc[t] \in {"c2", "c3", "z2", "z3"} /\ prev_state[t] /= "POLLING"

\* C29: a dcb_close whose move to NOPOLLING did not happen makes no step that
\* removes the DCB from the poll set, copies poll_bitmask() into its bitmask,
\* links it into the zombies list or changes its state.
C29_FailedCloseNoEffect ==
    [][\A t \in Workers :
          (CloseFailed(t) /\ pc'[t] /= pc[t]) =>
              /\ nRemove' = nRemove /\ pollset' = pollset
              /\ nSnap' = nSnap /\ bitmask' = bitmask
              /\ zombies' = zombies
              /\ dcb_state' = dcb_state]_vars

(***************************************************************************)
(* dcb_close on a listener                                                 *)
(***************************************************************************)
\* thread t is in dcb_close on a DCB that was LISTENING when it was called
ClosingListener(t) == pc[t] \in {"c2", "c3", "z2", "z3"} /\ prev_state[t] = "LISTENING"

\* C30: dcb_close on a DCB in LISTENING moves it to NOPOLLING, removes it from
\* the poll set, copies poll_bitmask() into its bitmask and goes on to
\* dcb_add_to_zombieslist, as on a DCB in POLLING.
C30_ListenerClose ==
    [][\A t \in Workers :
          /\ (pc[t] = "c1" /\ pc'[t] = "c2" /\ dcb_state[cur[t]] = "LISTENING") =>
                dcb_state'[cur[t]] = "NOPOLLING" /\ succp'[t]
          /\ (ClosingListener(t) /\ pc[t] = "c2" /\ pc'[t] = "c3") =>
                cur[t] \notin pollset' /\ bitmask'[cur[t]] = pollmask
          /\ (ClosingListener(t) /\ pc[t] = "c3" /\ pc'[t] /= "c3") => pc'[t] = "z2"]_vars

(***************************************************************************)
(* One call of dcb_process_zombies: the walk                               *)
(***************************************************************************)
\* C31: the walk of one dcb_process_zombies(t) call clears bit t, and no
\* other bit, of every DCB on the zombies list; it unlinks exactly the DCBs
\* whose bitmask is all clear after that and leaves the others on the list
\* in their order, their state unchanged; with an empty list the call
\* returns without taking zombiespin and changes nothing.
C31_ProcessZombiesWalk ==
    [][\A t \in Workers :
          (pc[t] = "pz" /\ pc'[t] /= "pz") =>
              IF zombies = << >>
              THEN /\ pc'[t] = "poll"
                   /\ UNCHANGED <<varsD, varsG, victims>>
              ELSE /\ \A d \in DCBs :
                        bitmask'[d] = IF InSeq(d, zombies)
                                      THEN bitmask[d] \ {t} ELSE bitmask[d]
                   /\ \A d \in DCBs :
                        /\ InSeq(d, zombies') <=> (InSeq(d, zombies) /\ bitmask'[d] /= {})
                        /\ InSeq(d, victims'[t]) <=> (InSeq(d, zombies) /\ bitmask'[d] = {})
                   /\ \A i, j \in 1 .. Len(zombies') :
                        i < j => \E k, l \in 1 .. Len(zombies) :
                                    k < l /\ zombies[k] = zombies'[i] /\ zombies[l] = zombies'[j]
                   /\ Len(zombies') + Len(victims'[t]) = Len(zombies)
                   /\ dcb_state' = dcb_state
                   /\ zombiespin' = NoThread]_vars

\* a walk has taken one DCB off the zombies list and left another on it
C31_Witness ==
    \E t \in Workers :
        /\ pc[t] = "pz2"
        /\ victims[t] /= << >>
        /\ zombies /= << >>
        /\ \A d \in SeqSet(zombies) : t \notin bitmask[d] /\ bitmask[d] /= {}

(***************************************************************************)
(* One call of dcb_process_zombies: the victim loop                        *)
(***************************************************************************)
\* C32: after spinlock_release(&zombiespin) dcb_process_zombies takes the
\* victims of the call one after another, holding no lock: it closes the
\* descriptor, moves the victim from ZOMBIE to DISCONNECTED and runs
\* dcb_final_free; every victim of the call is freed, and the step from one
\* victim to the next reads no field of a DCB that has been freed.
C32_VictimLoop ==
    [][\A t \in Workers :
          /\ (pc[t] = "pz2" /\ pc'[t] = "pz3") =>
                /\ zombiespin /= t
                /\ \A d \in DCBs : initlock[d] /= t
                /\ cur'[t] = Head(victims[t])
                /\ dcb_state[cur'[t]] = "ZOMBIE"
                /\ ~ fd_open'[cur'[t]]
                /\ dcb_state'[cur'[t]] = "DISCONNECTED"
                /\ mem'[cur'[t]] = "live"
          /\ (pc[t] = "pz4" /\ pc'[t] = "pz2") =>
                /\ mem'[cur[t]] = "freed"
                /\ victims'[t] = Tail(victims[t])
                /\ uaf' = uaf
          /\ (pc[t] = "pz2" /\ pc'[t] = "poll") => victims[t] = << >>]_vars

(***************************************************************************)
(* The zombies list holds a DCB once                                       *)
(***************************************************************************)
\* C33: the zombies list never holds a DCB twice (it is a chain through
\* memdata.next, so a DCB held twice is a cycle); a dcb_add_to_zombieslist
\* call for a DCB that is on the list, or was on it before, is turned down
\* under zombiespin and returns without linking; and a DCB is linked only
\* while its state is NOPOLLING.
C33_ZombieListNoDuplicate ==
    /\ [](\A i, j \in 1 .. Len(zombies) : zombies[i] = zombies[j] => i = j)
    /\ [][\A t \in Workers :
            (pc[t] = "z2" /\ pc'[t] /= "z2") =>
                /\ zombiespin = NoThread
                /\ (InSeq(cur[t], zombies) \/ nInsert[cur[t]] >= 1) =>
                       /\ zombies' = zombies
                       /\ zombiespin' = NoThread
                       /\ pc'[t] = "handler"
                /\ zombies' /= zombies =>
                       /\ dcb_state[cur[t]] = "NOPOLLING"
                       /\ zombies' = Append(zombies, cur[t])]_vars

\* a dcb_close has called dcb_add_to_zombieslist for a DCB that another
\* dcb_close has linked and moved to ZOMBIE in the meantime
C33_Witness ==
    \E t \in Workers :
        /\ pc[t] = "z2"
        /\ zombiespin = NoThread
        /\ InSeq(cur[t], zombies)
        /\ nInsert[cur[t]] = 1
        /\ dcb_state[cur[t]] = "ZOMBIE"

(***************************************************************************)
(* The DCBs on the zombies list are in DCB_STATE_ZOMBIE                    *)
(***************************************************************************)
\* C34: whenever no thread holds zombiespin every DCB on the zombies list
\* is in state ZOMBIE; the dcb_set_state(dcb, DCB_STATE_ZOMBIE, ...) of the
\* thread that linked the DCB always succeeds; and every DCB a walk of
\* dcb_process_zombies unlinks is in state ZOMBIE when it is unlinked.
C34_ListedAreZombies ==
    /\ [](zombiespin = NoThread => \A d \in SeqSet(zombies) : dcb_state[d] = "ZOMBIE")
    /\ [][\A t \in Workers :
            /\ (pc[t] = "z3" /\ pc'[t] /= "z3") =>
                  /\ \A u \in BOOLEAN :
                        dcb_set_state_nomutex(dcb_state[cur[t]], "ZOMBIE", u).succp
                  /\ dcb_state[cur[t]] /= "ZOMBIE"
                  /\ dcb_state'[cur[t]] = "ZOMBIE"
            /\ (pc[t] = "pz" /\ pc'[t] = "pz2") =>
                  \A d \in SeqSet(victims'[t]) :
                      dcb_state[d] = "ZOMBIE" /\ dcb_state'[d] = "ZOMBIE"]_vars

\* a DCB is on the zombies list, zombiespin is free, and a walk has cleared
\* a bit of it and left it there
C34_Witness ==
    /\ zombiespin = NoThread
    /\ \E d \in SeqSet(zombies) :
         /\ dcb_state[d] = "ZOMBIE"
         /\ clearedBy[d] /= {}
         /\ bitmask[d] /= {}

(***************************************************************************)
(* The state in which dcb_final_free is entered                            *)
(***************************************************************************)
\* C35: dcb_final_free is entered only for a DCB in state DISCONNECTED, on
\* the path from dcb_process_zombies and on every failure path of
\* dcb_connect.
C35_FinalFreeDisconnected ==
    \A t \in CThreads : cn_pc[t] = "ff1" => dcb_state[cn_dcb[t]] = "DISCONNECTED"

C37_EnumerateUnderLock ==
    /\ [](en_pc = "walk" => dcbspin = Enumerator /\ Chain = en_snap)
    /\ [](en_freed = {})
    /\ [](\A i, j \in 1 .. Len(en_seen) : en_seen[i] = en_seen[j] => i = j)
    /\ [][(en_pc = "walk" /\ en_pc' = "idle") =>
              /\ en_seen = Chain
              /\ \A d \in DCBs : InSeq(d, en_seen) => mem[d] = "live"]_vars

\* a walk has come to the end of a chain from which dcb_final_free had
\* taken a DCB before: it has printed the DCB that is left and not the
\* freed one
C37_Witness ==
    /\ en_pc = "walk"
    /\ en_dcb = NoDcb
    /\ Len(en_seen) >= 1
    /\ \E d \in DCBs : mem[d] = "freed" /\ ~ InSeq(d, en_seen)

(***************************************************************************)
(* Concurrent calls of dcb_process_zombies                                 *)
(***************************************************************************)
\* C38: with several threads in dcb_process_zombies every DCB that has left
\* the zombies list is on the victim list of exactly one thread until that
\* thread has freed it; its descriptor is closed once, it is moved from
\* ZOMBIE to DISCONNECTED once and dcb_final_free runs on it once.
C38_OneReaperPerDcb ==
    /\ [](\A d \in DCBs :
            (nInsert[d] >= 1 /\ ~ InSeq(d, zombies)) =>
                \/ /\ mem[d] = "live"
                   /\ \E t \in Workers :
                        /\ InSeq(d, victims[t])
                        /\ \A u \in Workers : InSeq(d, victims[u]) => u = t
                \/ /\ mem[d] = "freed"
                   /\ nFree[d] = 1
                   /\ ~ fd_open[d]
                   /\ dcb_state[d] = "DISCONNECTED"
                   /\ \A u \in Workers : ~ InSeq(d, victims[u]))
    /\ [][\A t \in Workers :
            /\ (pc[t] = "pz2" /\ pc'[t] = "pz3") =>
                  /\ fd_open[cur'[t]]
                  /\ dcb_state[cur'[t]] = "ZOMBIE"
                  /\ dcb_state'[cur'[t]] = "DISCONNECTED"
            /\ (pc[t] = "pz4" /\ pc'[t] = "pz2") => nFree[cur[t]] = 0]_vars

(***************************************************************************)
(* The window rollover of the query statistics                             *)
(***************************************************************************)
\* C39: of the threads that find stats->wid behind their window one wins
\* claim() and writes one entry, for the window that has ended, then sets
\* the counters and wid to the current window: no window is written twice,
\* no entry is written for a window that has not ended for its writer (an
\* entry written after the reset), and no two threads are inside the
\* rollover block at once.
C39_OneEntryPerWindow ==
    /\ \A i, j \in 1 .. Len(st_log) : st_log[i].wid = st_log[j].wid => i = j
    /\ \A i \in 1 .. Len(st_log) : st_log[i].wid < st_log[i].at
    /\ \A t, u \in QThreads :
         (qs_pc[t] \in RolloverPcs /\ qs_pc[u] \in RolloverPcs) => t = u

\* C40: when revoke() returns numClaims is 0, whatever claim() calls the
\* other threads made meanwhile, so that numClaims is 0 whenever no thread
\* is closing a window and a claim() made then returns true.
C40_RevokeClearsClaims ==
    /\ [][\A t \in QThreads :
            (qs_pc[t] = "revoke_add" /\ qs_pc'[t] = "process") => st_numClaims' = 0]_vars
    /\ []((\A t \in QThreads : qs_pc[t] \notin RolloverPcs \cup {"process"})
              => st_numClaims = 0)
    /\ [](st_lastRet)

====
